---- MODULE Spec2Model ----
(***************************************************************************)
(* Metadata-reconciliation and caching layer of the movie/book portal:     *)
(* the persistent caches of the two metadata services (books: Open Library *)
(* + Google Books, movies: TMDB), the matchers searchBook / searchMovie,   *)
(* the candidate scoring findBestMatch and the batch orchestrators         *)
(* batchSearchBooks / batchSearchMovies.                                   *)
(*                                                                         *)
(* The two services are separate modules with their own module-level       *)
(* cache, storage slot and debounce timer; a behaviour follows one of      *)
(* them, chosen by dom in the initial state.                               *)
(*                                                                         *)
(* Strings are sequences of tokens (words, " ", "(1996)", "EMDASH", ...);  *)
(* non-ASCII words of the source are transliterated.  Time is counted in   *)
(* units of TimeUnitMs milliseconds so that 30 days fit the integer range. *)
(***************************************************************************)
EXTENDS Integers, Sequences, FiniteSets, TLC

VARIABLES
  dom,               \* "book" | "movie": the service module this behaviour follows
  now,               \* Date.now(), in time units
  storage,           \* localStorage slot CACHE_STORAGE_KEY of the module
  cache,             \* the module's in-memory Map, in insertion order
  saveCacheTimeout,  \* the module's debounce timer (NoTimer or its deadline)
  booted,            \* module initialisation (loadCacheFromStorage) has run
  batch,             \* the running batchSearchBooks / batchSearchMovies call
  calls,             \* the searchBook / searchMovie invocations of the batch
  progress,          \* the (completed, total) pairs passed to onProgress
  env,               \* the environment: counters of its steps, localStorage is full
  match,             \* the last findBestMatch call and its result
  fetch,             \* the running task-source operation and its fetchWithRetry
  parsed,            \* the last parseMovieInfo / parseBookInfo call and its result
  app,               \* the page component App.vue: lists, toast, undo state
  lastOp,            \* history: the last operation and what it saw
  lastSave           \* history: the cache as it was at the last save

vars == <<dom, now, storage, cache, saveCacheTimeout, booted, batch, calls,
          progress, env, match, fetch, parsed, app, lastOp, lastSave>>

-----------------------------------------------------------------------------
(* Bounds of the model *)

MaxItems   == 6   \* longest list of books handed to batchSearchBooks
MaxMovies  == 2   \* longest list of movies handed to batchSearchMovies
MaxCacheItems == 1  \* longest item list of the batches that fill the cache
MaxEvents == 2   \* sleeps, reloads and clears of the page
MaxBatches == 1   \* batches started
MaxSaves   == 1   \* expiries of the debounce timer
MaxResults == 2   \* longest result list handed to findBestMatch
MaxCalls   == 2   \* searchBook calls running at once in SpecBook

-----------------------------------------------------------------------------
(* Program constants *)

TimeUnitMs         == 50
CACHE_EXPIRY_DAYS  == 30
TTL                == CACHE_EXPIRY_DAYS * 24 * 60 * 60 * (1000 \div TimeUnitMs)
DEBOUNCE_MS        == 1000
BATCH_SIZE         == 3
BATCH_DELAY_MS     == 200
DETAILS_DELAY_MS   == 50
MOVIE_DELAY_MS     == 100
MOVIE_NULL_DELAY_MS == 50
MAX_JSON_LENGTH    == 4 * 1024 * 1024
KEEP_PERCENT       == 80

CACHE_VERSION(d) == IF d = "book" THEN 2 ELSE 1

Units(ms) == ms \div TimeUnitMs

-----------------------------------------------------------------------------
(* JavaScript values *)

UNDEF == "undefined"
JNULL == "null"
NULL  == [type |-> "null"]

Falsy(x) == x \in {UNDEF, JNULL, "", "0"}

\* obj.f : a property that is absent reads as undefined
Read(obj, f) == IF f \in DOMAIN obj THEN obj[f] ELSE UNDEF

\* { ...obj, f: x }
Assign(obj, f, x) == [g \in DOMAIN obj \cup {f} |-> IF g = f THEN x ELSE obj[g]]

\* JSON.parse(JSON.stringify(v)): properties whose value is undefined are dropped
JsonValue(v) == [f \in {g \in DOMAIN v : v[g] # UNDEF} |-> v[f]]

\* Two values that answer every property read alike
SameValue(a, b) ==
  \A f \in DOMAIN a \cup DOMAIN b : Read(a, f) = Read(b, f)

\* Lengths of the strings the model distinguishes by size
LongText    == "long-text"
LongTextLen == 2500000
StrLen(s)   == IF s = LongText THEN LongTextLen ELSE 10

\* length of the serialised properties F of the object J
RECURSIVE FieldsLength(_, _)
FieldsLength(J, F) ==
  IF F = {} THEN 0
  ELSE LET f == CHOOSE g \in F : TRUE
       IN 4 + StrLen(f) + StrLen(J[f]) + FieldsLength(J, F \ {f})

\* JSON.stringify(v).length of a cached value
ValueJsonLength(v) ==
  IF v = NULL THEN 4
  ELSE 2 + FieldsLength(JsonValue(v), DOMAIN JsonValue(v))

-----------------------------------------------------------------------------
(* The in-memory Map: a sequence of entries with distinct keys *)

Keys(m) == {m[i].k : i \in 1..Len(m)}
Has(m, k) == k \in Keys(m)
Get(m, k) == m[CHOOSE i \in 1..Len(m) : m[i].k = k].v

\* Map.prototype.set: an existing key keeps its position
MapSet(m, k, v) ==
  IF Has(m, k)
  THEN [i \in 1..Len(m) |-> IF m[i].k = k THEN [k |-> k, v |-> v] ELSE m[i]]
  ELSE Append(m, [k |-> k, v |-> v])

-----------------------------------------------------------------------------
(* Persistent cache: loadCacheFromStorage / saveCacheToStorage / clear *)

NoBlob  == [kind |-> "none"]
NoTimer == 0 - 1

\* cacheData[key] = value ; JSON.stringify
JsonData(m) == [i \in 1..Len(m) |-> [k |-> m[i].k, v |-> JsonValue(m[i].v)]]

RECURSIVE EntriesLength(_)
EntriesLength(data) ==
  IF data = <<>> THEN 0
  ELSE 4 + 10 * Len(Head(data).k) + ValueJsonLength(Head(data).v)
       + EntriesLength(Tail(data))

\* JSON.stringify(toStore).length
JsonLength(toStore) == 40 + EntriesLength(toStore.data)

\* entries.slice(0, Math.floor(entries.length * 0.8))
ToKeep(entries) == SubSeq(entries, 1, (Len(entries) * KEEP_PERCENT) \div 100)

\* (variant: the expiry written is one time unit short of the 30 days)
ToStoreShort(d, m, t) ==
  LET toStore == [kind |-> "blob", version |-> CACHE_VERSION(d),
                  expiry |-> t + TTL - 1, data |-> JsonData(m)]
  IN IF JsonLength(toStore) > MAX_JSON_LENGTH
     THEN [toStore EXCEPT !.data = ToKeep(toStore.data)]
     ELSE toStore

\* The object handed to localStorage.setItem by saveCacheToStorage
ToStore(d, m, t) ==
  LET toStore == [kind |-> "blob", version |-> CACHE_VERSION(d),
                  expiry |-> t + TTL, data |-> JsonData(m)]
  IN IF JsonLength(toStore) > MAX_JSON_LENGTH
     THEN [toStore EXCEPT !.data = ToKeep(toStore.data)]
     ELSE toStore

\* (variant: on a quota error the blob is written without its entries)
SaveCacheToStoragePartial(d, m, t, quota) ==
  IF quota THEN [ToStore(d, m, t) EXCEPT !.data = <<>>] ELSE ToStore(d, m, t)

\* storage after saveCacheToStorage; quota: localStorage is full and setItem
\* throws QuotaExceededError
SaveCacheToStorage(d, m, t, quota) ==
  IF quota THEN NoBlob ELSE ToStore(d, m, t)

\* (variant: the comparison of the expiry check turned around)
ExpiredInverted(blob, t) == blob.expiry # 0 /\ blob.expiry > t

\* parsed.expiry && parsed.expiry < Date.now()
Expired(blob, t) == blob.expiry # 0 /\ blob.expiry < t

\* (variant: the version check left out)
LoadableAnyVersion(d, blob, t) ==
  /\ blob # NoBlob
  /\ ~Expired(blob, t)

\* the blob passes the checks of loadCacheFromStorage
Loadable(d, blob, t) ==
  /\ blob # NoBlob
  /\ blob.version = CACHE_VERSION(d)
  /\ ~Expired(blob, t)

RECURSIVE LoadEntries(_, _)
LoadEntries(m, data) ==
  IF data = <<>> THEN m
  ELSE LoadEntries(MapSet(m, Head(data).k, Head(data).v), Tail(data))

\* (variant: the loader skips entries whose value is null)
LoadedCacheSkipNull(d, m, blob, t) ==
  IF Loadable(d, blob, t)
  THEN LoadEntries(m, SelectSeq(blob.data, LAMBDA e : e.v # NULL))
  ELSE m

\* cache after loadCacheFromStorage
LoadedCache(d, m, blob, t) ==
  IF Loadable(d, blob, t) THEN LoadEntries(m, blob.data) ELSE m

\* storage after loadCacheFromStorage
LoadedStorage(d, blob, t) ==
  IF blob = NoBlob \/ Loadable(d, blob, t) THEN blob ELSE NoBlob

-----------------------------------------------------------------------------
(* Strings.  A TLA+ string is opaque, so the tokens of every string the    *)
(* model handles are listed in StringTable; string functions work on the   *)
(* token sequence and name the resulting string through the same table.    *)

NotAString == "<not a string>"   \* a title that is undefined / not a string

StringTable ==
  { [s |-> "",                      t |-> <<>>],
    [s |-> "Fargo_ru",              t |-> <<"Fargo_ru">>],
    [s |-> "Fargo",                 t |-> <<"Fargo">>],
    [s |-> "fargo",                 t |-> <<"fargo">>],
    [s |-> "Film Fargo_ru (1996) - Coen",
       t |-> <<"Film", " ", "LAQUO", "Fargo_ru", "RAQUO", " ", "(1996)", " ",
               "EMDASH", " ", "Coen">>],
    [s |-> "Dune",                  t |-> <<"Dune">>],
    [s |-> "dune",                  t |-> <<"dune">>],
    [s |-> "Dune: Part Two",        t |-> <<"Dune", ":", " ", "Part", " ", "Two">>],
    [s |-> "dune: part two",        t |-> <<"dune", ":", " ", "part", " ", "two">>],
    [s |-> "The Dune",              t |-> <<"The", " ", "Dune">>],
    [s |-> "the dune",              t |-> <<"the", " ", "dune">>],
    [s |-> "Solaris",               t |-> <<"Solaris">>],
    [s |-> "solaris",               t |-> <<"solaris">>],
    [s |-> "War and Peace_ru",      t |-> <<"War_ru", " ", "and_ru", " ", "Peace_ru">>],
    [s |-> "War and Peace_ru #2 - Tolstoy",
       t |-> <<"War_ru", " ", "and_ru", " ", "Peace_ru", " ", "#2", " ",
               "ENDASH", " ", "Tolstoy">>],
    [s |-> "War and Peace",         t |-> <<"War", " ", "and", " ", "Peace">>] }

Tok(s) == (CHOOSE e \in StringTable : e.s = s).t
Str(t) == (CHOOSE e \in StringTable : e.t = t).s

IsSpace(c) == c = " "
IsYearParen(c) == c \in {"(1996)", "(2014)"}                 \* \(\d{4}\)
IsQuote(c) == c \in {"LAQUO", "RAQUO", "\"", "'"}             \* [«»"']

LowerTable == [Film |-> "film", Fargo |-> "fargo", Dune |-> "dune",
               Part |-> "part", Two |-> "two", The |-> "the",
               Solaris |-> "solaris", War |-> "war", Peace |-> "peace",
               Coen |-> "coen", Tolstoy |-> "tolstoy"]
LowerTok(c) == IF c \in DOMAIN LowerTable THEN LowerTable[c] ELSE c

\* String.prototype.toLowerCase
ToLowerCase(s) == Str([i \in 1..Len(Tok(s)) |-> LowerTok(Tok(s)[i])])

RECURSIVE TrimStart(_)
TrimStart(t) == IF t # <<>> /\ IsSpace(Head(t)) THEN TrimStart(Tail(t)) ELSE t

RECURSIVE TrimEnd(_)
TrimEnd(t) ==
  IF t # <<>> /\ IsSpace(t[Len(t)]) THEN TrimEnd(SubSeq(t, 1, Len(t) - 1)) ELSE t

\* String.prototype.trim
Trim(t) == TrimStart(TrimEnd(t))

\* needle occurs in hay at position i
OccursAt(hay, needle, i) ==
  /\ i + Len(needle) - 1 <= Len(hay)
  /\ \A j \in 1..Len(needle) : hay[i + j - 1] = needle[j]

StartsWith(a, b) == OccursAt(Tok(a), Tok(b), 1)
Includes(a, b)   == \E i \in 1..(Len(Tok(a)) + 1) : OccursAt(Tok(a), Tok(b), i)

\* .replace(/\s*\(\d{4}\)\s*/g, '')
RECURSIVE RemoveYears(_)
RemoveYears(t) ==
  IF \A i \in 1..Len(t) : ~IsYearParen(t[i]) THEN t
  ELSE LET i == CHOOSE j \in 1..Len(t) :
                  IsYearParen(t[j]) /\ \A h \in 1..(j - 1) : ~IsYearParen(t[h])
       IN TrimEnd(SubSeq(t, 1, i - 1))
            \o RemoveYears(TrimStart(SubSeq(t, i + 1, Len(t))))

\* .replace(/[«»"']/g, '')
RemoveQuotes(t) == SelectSeq(t, LAMBDA c : ~IsQuote(c))

\* .replace(/\s*—\s*.+$/, ''): cut from the first em dash that has text after it
MovieDashAt(t, i) == t[i] = "EMDASH" /\ i < Len(t)
RemoveDirector(t) ==
  IF \A i \in 1..Len(t) : ~MovieDashAt(t, i) THEN t
  ELSE LET i == CHOOSE j \in 1..Len(t) :
                  MovieDashAt(t, j) /\ \A h \in 1..(j - 1) : ~MovieDashAt(t, h)
       IN TrimEnd(SubSeq(t, 1, i - 1))

\* .replace(/^(Фильм|Сериал|Аниме|Посмотреть|Мультфильм)\s+/i, '')
IsMoviePrefix(c) == LowerTok(c) \in {"film", "serial", "anime"}
RemovePrefix(t) ==
  IF Len(t) >= 2 /\ IsMoviePrefix(t[1]) /\ IsSpace(t[2])
  THEN TrimStart(Tail(t)) ELSE t

\* cleanTitle of the movie service
CleanMovieTitle(title) ==
  Str(Trim(RemoveQuotes(RemovePrefix(RemoveDirector(RemoveYears(Tok(title)))))))

\* .replace(/\s+[—–]\s+.+$/, ''): the dash needs spaces on both sides
BookDashAt(t, i) ==
  /\ t[i] \in {"EMDASH", "ENDASH"}
  /\ i > 1 /\ IsSpace(t[i - 1])
  /\ i + 2 <= Len(t) /\ IsSpace(t[i + 1])
RemoveAuthor(t) ==
  IF \A i \in 1..Len(t) : ~BookDashAt(t, i) THEN t
  ELSE LET i == CHOOSE j \in 1..Len(t) :
                  BookDashAt(t, j) /\ \A h \in 1..(j - 1) : ~BookDashAt(t, h)
       IN TrimEnd(SubSeq(t, 1, i - 1))

\* .replace(/#\d+/g, '') .replace(/[Тт]ом\s*\d+/g, '') .replace(/[Кк]нига\s*\d+/g, '')
IsSeriesMarker(c) == c \in {"#2", "Tom 2", "Kniga 2"}
RemoveSeriesMarkers(t) == SelectSeq(t, LAMBDA c : ~IsSeriesMarker(c))

\* cleanTitle of the book service
CleanBookTitle(title) ==
  Str(Trim(RemoveSeriesMarkers(RemoveQuotes(RemoveAuthor(RemoveYears(Tok(title)))))))

\* TITLE_TRANSLATIONS[cleanedTitle] (the entries the model's titles can hit)
TITLE_TRANSLATIONS(d) ==
  IF d = "book" THEN [s \in {"War and Peace_ru"} |-> "War and Peace"]
  ELSE [s \in {"Fargo_ru"} |-> "Fargo"]

IsTranslated(d, cleaned) == cleaned \in DOMAIN TITLE_TRANSLATIONS(d)
SearchTitle(d, cleaned) ==
  IF IsTranslated(d, cleaned) THEN TITLE_TRANSLATIONS(d)[cleaned] ELSE cleaned

\* `${searchTitle}-${author || ''}`
BookCacheKey(searchTitle, author) ==
  <<searchTitle, "-", IF Falsy(author) THEN "" ELSE author>>

NoYear == 0 - 1    \* year = null
YearString(year) == IF year = NoYear THEN "null" ELSE ToString(year)
BoolString(b) == IF b THEN "true" ELSE "false"

\* `${cleanedTitle}-${year}-${isTV}`
MovieCacheKey(cleanedTitle, year, isTV) ==
  <<cleanedTitle, "-", YearString(year), "-", BoolString(isTV)>>

-----------------------------------------------------------------------------
(* Candidate scoring of the movie service: findBestMatch *)

\* releaseDate ? parseInt(releaseDate.substring(0, 4)) : null
ParseYear(releaseDate) ==
  IF releaseDate = "1996-04-05" THEN 1996
  ELSE IF releaseDate = "1997-02-01" THEN 1997
  ELSE IF releaseDate = "1998-02-01" THEN 1998
  ELSE IF releaseDate = "2014-04-15" THEN 2014
  ELSE NoYear

\* a number used as a condition: null and 0 are falsy
Truthy(n) == n # NoYear /\ n # 0

Abs(n) == IF n < 0 THEN 0 - n ELSE n
Min(a, b) == IF a < b THEN a ELSE b

SCORE_SCALE     == 200    \* scores are kept as multiples of 1/200
YEAR_EXACT      == 150
YEAR_OFF_BY_ONE == 30
YEAR_OFF_BY_TWO == 10
YEAR_FAR        == 50     \* subtracted
YEAR_MISSING    == 20     \* subtracted
TITLE_EXACT     == 100
TITLE_PREFIX    == 50
TITLE_CONTAINS  == 25
TITLE_NONE      == 30     \* subtracted
POPULARITY_CAP  == 10
VOTES_CAP       == 5
MIN_SCORE_YEAR  == 80
MIN_SCORE_NO_YEAR == 30

ResultTitle(result, isTV)   == ToLowerCase(IF isTV THEN result.name ELSE result.title)
OriginalTitle(result, isTV) ==
  ToLowerCase(IF isTV THEN result.original_name ELSE result.original_title)
ResultYear(result, isTV) ==
  ParseYear(IF isTV THEN result.first_air_date ELSE result.release_date)

\* (variant: the exact-year bonus mistyped as 15)
YearScoreWeak(result, year, isTV) ==
  LET resultYear == ResultYear(result, isTV) IN
  IF Truthy(year) /\ Truthy(resultYear)
  THEN IF resultYear = year THEN 15
       ELSE IF Abs(resultYear - year) = 1 THEN YEAR_OFF_BY_ONE
       ELSE IF Abs(resultYear - year) <= 2 THEN YEAR_OFF_BY_TWO
       ELSE 0 - YEAR_FAR
  ELSE IF Truthy(year) /\ ~Truthy(resultYear) THEN 0 - YEAR_MISSING
  ELSE 0

YearScore(result, year, isTV) ==
  LET resultYear == ResultYear(result, isTV) IN
  IF Truthy(year) /\ Truthy(resultYear)
  THEN IF resultYear = year THEN YEAR_EXACT
       ELSE IF Abs(resultYear - year) = 1 THEN YEAR_OFF_BY_ONE
       ELSE IF Abs(resultYear - year) <= 2 THEN YEAR_OFF_BY_TWO
       ELSE 0 - YEAR_FAR
  ELSE IF Truthy(year) /\ ~Truthy(resultYear) THEN 0 - YEAR_MISSING
  ELSE 0

\* "exact" | "prefix" | "contains" | "none"
TitleClass(result, normalizedSearch, isTV) ==
  LET resultTitle   == ResultTitle(result, isTV)
      originalTitle == OriginalTitle(result, isTV) IN
  IF resultTitle = normalizedSearch \/ originalTitle = normalizedSearch
  THEN "exact"
  ELSE IF StartsWith(resultTitle, normalizedSearch)
          \/ StartsWith(originalTitle, normalizedSearch)
  THEN "prefix"
  ELSE IF Includes(resultTitle, normalizedSearch)
          \/ Includes(originalTitle, normalizedSearch)
  THEN "contains"
  ELSE "none"

TitleScore(class) ==
  IF class = "exact" THEN TITLE_EXACT
  ELSE IF class = "prefix" THEN TITLE_PREFIX
  ELSE IF class = "contains" THEN TITLE_CONTAINS
  ELSE 0 - TITLE_NONE

\* the score of one result, times SCORE_SCALE
Score(result, normalizedSearch, year, isTV) ==
  SCORE_SCALE * ( YearScore(result, year, isTV)
                  + TitleScore(TitleClass(result, normalizedSearch, isTV)) )
  + Min((SCORE_SCALE \div 20) * result.popularity, SCORE_SCALE * POPULARITY_CAP)
  + Min((SCORE_SCALE \div 200) * result.vote_count, SCORE_SCALE * VOTES_CAP)

\* const minScore = year ? 80 : 30
MinScore(year) == IF Truthy(year) THEN MIN_SCORE_YEAR ELSE MIN_SCORE_NO_YEAR

\* scored.sort((a, b) => b.score - a.score)[0]: the sort is stable, so the
\* best match is the first result that has the highest score
BestIndex(results, normalizedSearch, year, isTV) ==
  CHOOSE i \in 1..Len(results) :
    /\ \A j \in 1..Len(results) :
         Score(results[j], normalizedSearch, year, isTV)
           <= Score(results[i], normalizedSearch, year, isTV)
    /\ \A j \in 1..(i - 1) :
         Score(results[j], normalizedSearch, year, isTV)
           < Score(results[i], normalizedSearch, year, isTV)

\* the single result is taken unscored
SingleResult(results) == IF Len(results) = 1 THEN 1 ELSE 0

\* findBestMatch: the index of the result it returns, 0 for null
findBestMatch(results, searchTitle, year, isTV) ==
  IF Len(results) = 0 THEN 0
  ELSE IF SingleResult(results) # 0 THEN SingleResult(results)
  ELSE LET normalizedSearch == Str(Trim(Tok(ToLowerCase(searchTitle))))
           best == BestIndex(results, normalizedSearch, year, isTV)
       IN IF Score(results[best], normalizedSearch, year, isTV)
               < SCORE_SCALE * MinScore(year)
          THEN 0 ELSE best

-----------------------------------------------------------------------------
(* Provider responses *)

NetError   == [kind |-> "neterr"]               \* fetch rejects
HttpError  == [kind |-> "http"]                 \* response.ok is false
Ok(list)   == [kind |-> "ok", list |-> list]    \* data.docs / data.items / data.results

-----------------------------------------------------------------------------
(* The book matcher: searchBook and its helpers *)

\* processSearchResult
processSearchResult(doc) ==
  [key     |-> doc.key,
   title   |-> doc.title,
   coverId |-> doc.cover_i,
   pages   |-> IF Falsy(doc.number_of_pages_median) THEN JNULL
               ELSE doc.number_of_pages_median]

\* findBestResultWithCover
findBestResultWithCover(docs) ==
  IF \E i \in 1..Len(docs) : ~Falsy(docs[i].cover_i)
  THEN processSearchResult(docs[CHOOSE i \in 1..Len(docs) :
         ~Falsy(docs[i].cover_i) /\ \A j \in 1..(i - 1) : Falsy(docs[j].cover_i)])
  ELSE IF Len(docs) > 0 THEN processSearchResult(docs[1]) ELSE NULL

\* performOpenLibSearch, given the provider's response
performOpenLibSearch(resp) ==
  IF resp.kind # "ok" THEN NULL
  ELSE IF Len(resp.list) = 0 THEN NULL
  ELSE findBestResultWithCover(resp.list)

\* coverUrl.replace(/^http:/, 'https:').replace(/zoom=\d/, 'zoom=2')
GoogleCoverUrl(thumbnail) ==
  IF thumbnail \in {"http://books.google/1?zoom=1", "https://books.google/1?zoom=1"}
  THEN "https://books.google/1?zoom=2" ELSE thumbnail

\* searchGoogleBooks, given the provider's response
searchGoogleBooks(resp) ==
  IF resp.kind # "ok" THEN NULL
  ELSE IF \A i \in 1..Len(resp.list) : Falsy(resp.list[i].thumbnail) THEN NULL
  ELSE LET item == resp.list[CHOOSE i \in 1..Len(resp.list) :
                     /\ ~Falsy(resp.list[i].thumbnail)
                     /\ \A j \in 1..(i - 1) : Falsy(resp.list[j].thumbnail)]
       IN [coverUrl    |-> GoogleCoverUrl(item.thumbnail),
           googleTitle |-> item.title,
           googlePages |-> IF Falsy(item.pageCount) THEN JNULL ELSE item.pageCount]

\* !result || !result.coverId
NoCover(result) == result = NULL \/ Falsy(Read(result, "coverId"))

\* (variant: any title-only result replaces the title+author result)
MergeTitleResultAlways(result, titleResult) ==
  IF titleResult # NULL THEN titleResult ELSE result

\* the title-only result replaces the title+author result
MergeTitleResult(result, titleResult) ==
  IF titleResult # NULL /\ (result = NULL \/ ~Falsy(Read(titleResult, "coverId")))
  THEN titleResult ELSE result

\* (variant: the page count of Google Books always wins)
MergeGoogleResultPages(result, googleResult, searchTitle) ==
  IF googleResult = NULL \/ Falsy(googleResult.coverUrl) THEN result
  ELSE [key      |-> IF result = NULL THEN JNULL ELSE result.key,
        title    |-> IF result = NULL THEN searchTitle ELSE result.title,
        coverId  |-> JNULL,
        coverUrl |-> googleResult.coverUrl,
        pages    |-> googleResult.googlePages]

\* the Google Books fallback applied to the Open Library result
MergeGoogleResult(result, googleResult, searchTitle) ==
  IF googleResult = NULL \/ Falsy(googleResult.coverUrl) THEN result
  ELSE IF result = NULL
  THEN [key      |-> JNULL,
        title    |-> IF Falsy(googleResult.googleTitle) THEN searchTitle
                     ELSE googleResult.googleTitle,
        coverId  |-> JNULL,
        coverUrl |-> googleResult.coverUrl,
        pages    |-> googleResult.googlePages]
  ELSE LET withCover == Assign(result, "coverUrl", googleResult.coverUrl)
       IN IF Falsy(Read(result, "pages")) /\ ~Falsy(googleResult.googlePages)
          THEN Assign(withCover, "pages", googleResult.googlePages)
          ELSE withCover

-----------------------------------------------------------------------------
(* The state of the running page, as one record, so that the code that     *)
(* runs between two suspension points can be composed.                     *)

IdleCall ==
  [pc |-> "idle", item |-> 0, searchTitle |-> "", key |-> <<>>,
   result |-> NULL, value |-> NULL, returned |-> NULL, hit |-> FALSE]

NoBatch ==
  [pc |-> "idle", items |-> <<>>, first |-> 1, results |-> <<>>,
   completed |-> 0, timer |-> NoTimer, apiKey |-> "", fetchDetails |-> FALSE,
   count |-> 0]

Slots == 1..BATCH_SIZE

Page ==
  [now |-> now, storage |-> storage, cache |-> cache,
   saveCacheTimeout |-> saveCacheTimeout, batch |-> batch, calls |-> calls,
   progress |-> progress, lastSave |-> lastSave]

SetPage(S) ==
  /\ storage' = S.storage
  /\ cache' = S.cache
  /\ saveCacheTimeout' = S.saveCacheTimeout
  /\ batch' = S.batch
  /\ calls' = S.calls
  /\ progress' = S.progress
  /\ lastSave' = S.lastSave

\* debouncedSaveCache: cancel the pending timer and arm a new one
debouncedSaveCache(S) ==
  [S EXCEPT !.saveCacheTimeout = S.now + Units(DEBOUNCE_MS)]

\* saveCacheToStorage run on the page
SavePage(d, S, quota) ==
  [S EXCEPT !.storage = SaveCacheToStorage(d, S.cache, S.now, quota),
            !.lastSave = [kind |-> "save", mem |-> S.cache, at |-> S.now,
                          quota |-> quota]]

\* (variant: the final save without clearTimeout)
FinalSaveKeepTimer(d, S, quota) == SavePage(d, S, quota)

\* "Final save" at the end of a batch
FinalSave(d, S, quota) ==
  SavePage(d, [S EXCEPT !.saveCacheTimeout = NoTimer], quota)

Settled(call) == call.pc \in {"idle", "resolved", "rejected"}
InFlight(cs) == {sl \in Slots : ~Settled(cs[sl])}

\* return value: the awaiting caller sees value, or the catch block's null
Resolve(call, value) ==
  [call EXCEPT !.pc = "resolved", !.value = value, !.returned = value]

\* (variant: a key that is already in the cache is not written again)
CacheAndReturnKeepFirst(S, slot, result) ==
  LET key == S.calls[slot].key
      S1 == [S EXCEPT !.cache = IF Has(S.cache, key) THEN S.cache
                                ELSE MapSet(S.cache, key, result),
                      !.calls[slot] = Resolve(S.calls[slot], result)]
  IN debouncedSaveCache(S1)

\* cache.set(cacheKey, result); debouncedSaveCache(); return result
CacheAndReturn(S, slot, result) ==
  LET S1 == [S EXCEPT !.cache = MapSet(S.cache, S.calls[slot].key, result),
                      !.calls[slot] = Resolve(S.calls[slot], result)]
  IN debouncedSaveCache(S1)

\* issue one provider request and wait for it at pc
Await(S, slot, pc) ==
  [S EXCEPT !.calls[slot].pc = pc]

\* searchBook up to its first await
searchBookStart(S, slot, i) ==
  LET item == S.batch.items[i] IN
  IF item.title = NotAString
  THEN [S EXCEPT !.calls[slot] = [IdleCall EXCEPT !.pc = "rejected", !.item = i]]
  ELSE LET searchTitle == SearchTitle("book", CleanBookTitle(item.title))
           cacheKey == BookCacheKey(searchTitle, item.author)
           call == [IdleCall EXCEPT !.item = i, !.searchTitle = searchTitle,
                                    !.key = cacheKey]
       IN IF Has(S.cache, cacheKey)
          THEN [S EXCEPT !.calls[slot] =
                  [Resolve(call, Get(S.cache, cacheKey)) EXCEPT !.hit = TRUE]]
          ELSE Await([S EXCEPT !.calls[slot] = call], slot,
                     IF ~Falsy(item.author) THEN "ol1" ELSE "ol2")

\* searchBook resumed by the response to the title+author query
searchBookOnAuthorQuery(S, slot, resp) ==
  LET result == performOpenLibSearch(resp) IN
  IF NoCover(result)
  THEN Await([S EXCEPT !.calls[slot].result = result], slot, "ol2")
  ELSE CacheAndReturn(S, slot, result)

\* (variant: Google Books is asked whatever Open Library found)
searchBookOnTitleQueryThenGoogle(S, slot, resp) ==
  LET result == MergeTitleResult(S.calls[slot].result, performOpenLibSearch(resp)) IN
  Await([S EXCEPT !.calls[slot].result = result], slot, "gb")

\* searchBook resumed by the response to the title-only query
searchBookOnTitleQuery(S, slot, resp) ==
  LET result == MergeTitleResult(S.calls[slot].result, performOpenLibSearch(resp)) IN
  IF NoCover(result)
  THEN Await([S EXCEPT !.calls[slot].result = result], slot, "gb")
  ELSE CacheAndReturn(S, slot, result)

\* searchBook resumed by the response of Google Books
searchBookOnGoogle(S, slot, resp) ==
  CacheAndReturn(S, slot,
    MergeGoogleResult(S.calls[slot].result, searchGoogleBooks(resp),
                      S.calls[slot].searchTitle))

-----------------------------------------------------------------------------
(* The movie matcher: searchMovie, fetchMovieDetails, fetchWatchProviders *)

\* const movieData = { id: result.id, ... }
MovieData(result, isTV) ==
  [id            |-> result.id,
   title         |-> IF isTV THEN result.name ELSE result.title,
   originalTitle |-> IF isTV THEN result.original_name ELSE result.original_title,
   posterPath    |-> result.poster_path,
   overview      |-> result.overview,
   releaseDate   |-> IF isTV THEN result.first_air_date ELSE result.release_date,
   voteCount     |-> ToString(result.vote_count),
   isTV          |-> BoolString(isTV)]

\* (variant: a failed request is thrown on to the caller)
CachedOrThrow(S, slot) ==
  [S EXCEPT !.calls[slot].pc = "rejected"]

\* if (cache.has(cacheKey)) return cache.get(cacheKey); return null
CachedOrNull(S, slot) ==
  [S EXCEPT !.calls[slot] =
     Resolve(S.calls[slot],
             IF Has(S.cache, S.calls[slot].key)
             THEN Get(S.cache, S.calls[slot].key) ELSE NULL)]

MovieOf(S, slot) == S.batch.items[S.calls[slot].item]
MovieIsTV(S, slot) == MovieOf(S, slot).isSeries

\* (variant: searchMovie without the cache lookup)
searchMovieStartNoCache(S, slot, i) ==
  LET item == S.batch.items[i]
      started == [IdleCall EXCEPT !.item = i] IN
  IF Falsy(S.batch.apiKey)
  THEN [S EXCEPT !.calls[slot] = Resolve(started, NULL)]
  ELSE IF item.title = NotAString
  THEN [S EXCEPT !.calls[slot] = [started EXCEPT !.pc = "rejected"]]
  ELSE LET cleanedTitle == CleanMovieTitle(item.title)
           cacheKey == MovieCacheKey(cleanedTitle, item.year, item.isSeries)
           call == [started EXCEPT !.searchTitle = cleanedTitle, !.key = cacheKey]
       IN Await([S EXCEPT !.calls[slot] = call], slot, "q1")

\* searchMovie up to its first await
searchMovieStart(S, slot, i) ==
  LET item == S.batch.items[i]
      started == [IdleCall EXCEPT !.item = i] IN
  IF Falsy(S.batch.apiKey)
  THEN [S EXCEPT !.calls[slot] = Resolve(started, NULL)]
  ELSE IF item.title = NotAString
  THEN [S EXCEPT !.calls[slot] = [started EXCEPT !.pc = "rejected"]]
  ELSE LET cleanedTitle == CleanMovieTitle(item.title)
           cacheKey == MovieCacheKey(cleanedTitle, item.year, item.isSeries)
           call == [started EXCEPT !.searchTitle = cleanedTitle, !.key = cacheKey]
       IN IF Has(S.cache, cacheKey)
          THEN [S EXCEPT !.calls[slot] =
                  [Resolve(call, Get(S.cache, cacheKey)) EXCEPT !.hit = TRUE]]
          ELSE Await([S EXCEPT !.calls[slot] = call], slot, "q1")

\* the end of searchMovie: cache the match, or null, and return it
searchMovieFinish(S, slot, results, index) ==
  CacheAndReturn(S, slot,
    IF index = 0 THEN NULL ELSE MovieData(results[index], MovieIsTV(S, slot)))

\* (variant: a rejection with the year is final)
searchMovieScoreNoRetry(S, slot, results) ==
  IF Len(results) = 0 THEN CacheAndReturn(S, slot, NULL)
  ELSE searchMovieFinish(S, slot, results,
         findBestMatch(results, SearchTitle("movie", S.calls[slot].searchTitle),
                       MovieOf(S, slot).year, MovieIsTV(S, slot)))

\* searchMovie from "if (data.results && data.results.length > 0)" on
searchMovieScore(S, slot, results) ==
  LET cleanedTitle == S.calls[slot].searchTitle
      year == MovieOf(S, slot).year
      index == findBestMatch(results, SearchTitle("movie", cleanedTitle), year,
                             MovieIsTV(S, slot)) IN
  IF Len(results) = 0 THEN CacheAndReturn(S, slot, NULL)
  ELSE IF index = 0 /\ Truthy(year) THEN Await(S, slot, "q4")
  ELSE searchMovieFinish(S, slot, results, index)

\* const searchLanguage = isTranslated ? 'en-US' : 'ru-RU'
SearchLanguage(cleanedTitle) ==
  IF IsTranslated("movie", cleanedTitle) THEN "en-US" ELSE "ru-RU"

\* the url of the request that searchMovie waits for at pc: its query text,
\* its language and its year parameter (NoYear: no year parameter)
RequestUrl(cleanedTitle, year, pc) ==
  LET searchTitle == SearchTitle("movie", cleanedTitle) IN
  CASE pc = "q1" -> [query |-> searchTitle, year |-> year,
                     language |-> SearchLanguage(cleanedTitle)]
    [] pc = "q2" -> [query |-> searchTitle, year |-> year, language |-> "en-US"]
    [] pc = "q3" -> [query |-> cleanedTitle, year |-> year, language |-> "ru-RU"]
    [] pc = "q4" -> [query |-> searchTitle, year |-> NoYear,
                     language |-> SearchLanguage(cleanedTitle)]

\* (variant: the retry after an empty result is always the English one)
searchMovieOnFirstEnglishOnly(S, slot, resp) ==
  IF resp.kind # "ok" THEN CachedOrNull(S, slot)
  ELSE IF Len(resp.list) = 0 THEN Await(S, slot, "q2")
  ELSE searchMovieScore(S, slot, resp.list)

\* searchMovie resumed by the response to its first query
searchMovieOnFirst(S, slot, resp) ==
  IF resp.kind # "ok" THEN CachedOrNull(S, slot)
  ELSE IF Len(resp.list) = 0
  THEN Await(S, slot,
             IF IsTranslated("movie", S.calls[slot].searchTitle) THEN "q3" ELSE "q2")
  ELSE searchMovieScore(S, slot, resp.list)

\* searchMovie resumed by the response to the other-language query (q2: English,
\* q3: the original title); data is still the empty result of the first query
searchMovieOnFallback(S, slot, resp) ==
  IF resp.kind = "neterr" /\ Has(S.cache, S.calls[slot].key)
  THEN CachedOrNull(S, slot)
  ELSE searchMovieScore(S, slot, IF resp.kind = "ok" THEN resp.list ELSE <<>>)

\* searchMovie resumed by the response to the query without the year
searchMovieOnYearless(S, slot, resp) ==
  IF resp.kind = "neterr" /\ Has(S.cache, S.calls[slot].key)
  THEN CachedOrNull(S, slot)
  ELSE IF resp.kind = "ok" /\ Len(resp.list) > 0
  THEN searchMovieFinish(S, slot, resp.list,
         findBestMatch(resp.list,
                       SearchTitle("movie", S.calls[slot].searchTitle),
                       NoYear, MovieIsTV(S, slot)))
  ELSE searchMovieFinish(S, slot, <<>>, 0)

\* `details-${tmdbId}-${isTV}` and `providers-${tmdbId}-${isTV}-${country}`
DetailsKey(v)   == <<"details", "-", v.id, "-", v.isTV>>
ProvidersKey(v) == <<"providers", "-", v.id, "-", v.isTV, "-", "RU">>

\* Object.assign(searchResult, { f: x }): searchResult is the object the cache
\* holds under the call's key, unless the cache was cleared in between
AssignResult(S, slot, f, x) ==
  LET old == S.calls[slot].value
      new == Assign(old, f, x)
      key == S.calls[slot].key IN
  [S EXCEPT !.calls[slot].value = new,
            !.cache = IF Has(S.cache, key) /\ Get(S.cache, key) = old
                      THEN MapSet(S.cache, key, new) ELSE S.cache]

-----------------------------------------------------------------------------
(* batchSearchBooks *)

ItemCount(S) == Len(S.batch.items)

\* (variant: the callback gets the count of the items still to do)
onProgressRemaining(S, completed, total) ==
  [S EXCEPT !.progress = Append(S.progress, <<total - completed, total>>)]

\* if (onProgress) onProgress(completed, total): the page's callback, which
\* is observed as the sequence of its arguments
onProgress(S, completed, total) ==
  [S EXCEPT !.progress = Append(S.progress, <<completed, total>>)]

\* (variant: a lookup that threw leaves no entry)
RecordResultSkipFailed(S, slot) ==
  LET call == S.calls[slot]
      id == S.batch.items[call.item].id
      S1 == [S EXCEPT !.batch.results =
                        IF call.pc = "rejected" THEN S.batch.results
                        ELSE MapSet(S.batch.results, id, call.value),
                      !.batch.completed = S.batch.completed + 1]
  IN onProgress(S1, S1.batch.completed, ItemCount(S1))

\* results.set(id, result), or results.set(id, null) in the catch block;
\* completed++; onProgress(completed, total)
RecordResult(S, slot) ==
  LET call == S.calls[slot]
      id == S.batch.items[call.item].id
      result == IF call.pc = "rejected" THEN NULL ELSE call.value
      S1 == [S EXCEPT !.batch.results = MapSet(S.batch.results, id, result),
                      !.batch.completed = S.batch.completed + 1]
  IN onProgress(S1, S1.batch.completed, ItemCount(S1))

\* clearTimeout(saveCacheTimeout); saveCacheToStorage(); return results
BatchReturn(d, S, quota) ==
  LET S1 == FinalSave(d, S, quota) IN
  [S1 EXCEPT !.batch.pc = "done", !.batch.timer = NoTimer]

\* batch.map(async book => searchBook(...)): every lookup of the group runs
\* up to its first await
RECURSIVE StartGroup(_, _)
StartGroup(S, slot) ==
  IF slot > BATCH_SIZE THEN S
  ELSE LET i == S.batch.first + slot - 1 IN
       StartGroup(IF i <= ItemCount(S) THEN searchBookStart(S, slot, i)
                  ELSE [S EXCEPT !.calls[slot] = IdleCall],
                  slot + 1)

RECURSIVE RecordGroup(_, _)
RecordGroup(S, slot) ==
  IF slot > BATCH_SIZE THEN S
  ELSE RecordGroup(IF S.calls[slot].pc = "idle" THEN S ELSE RecordResult(S, slot),
                   slot + 1)

\* batch !== batches[batches.length - 1]
IsLastGroup(S) == S.batch.first + BATCH_SIZE > ItemCount(S)

\* after Promise.all: record the group, then wait or finish
BookGroupDone(S, quota) ==
  LET S1 == RecordGroup(S, 1) IN
  IF IsLastGroup(S1) THEN BatchReturn("book", S1, quota)
  ELSE [S1 EXCEPT !.batch.pc = "delay",
                  !.batch.timer = S1.now + Units(BATCH_DELAY_MS)]

\* (variant: Promise.race, the continuation runs once one lookup has settled)
BookSettleAny(S, quota) ==
  IF S.batch.pc = "group" /\ \E sl \in Slots : S.calls[sl].pc \in {"resolved", "rejected"}
  THEN BookGroupDone(S, quota)
  ELSE S

\* the continuation of batchSearchBooks runs as soon as every lookup of the
\* group has settled
BookSettle(S, quota) ==
  IF S.batch.pc = "group" /\ InFlight(S.calls) = {} THEN BookGroupDone(S, quota)
  ELSE S

BookRunGroup(S, first, quota) ==
  BookSettle(StartGroup([S EXCEPT !.batch.pc = "group", !.batch.first = first], 1),
             quota)

NewBatch(S, items, apiKey, fetchDetails) ==
  [S EXCEPT !.batch = [NoBatch EXCEPT !.items = items, !.apiKey = apiKey,
                                      !.fetchDetails = fetchDetails,
                                      !.count = S.batch.count + 1],
            !.calls = [sl \in Slots |-> IdleCall],
            !.progress = <<>>]

\* batchSearchBooks up to its first await
batchSearchBooks(S, books, quota) ==
  LET S1 == NewBatch(S, books, "", FALSE) IN
  IF Len(books) = 0 THEN BatchReturn("book", S1, quota)
  ELSE BookRunGroup(S1, 1, quota)

-----------------------------------------------------------------------------
(* batchSearchMovies: one movie at a time, in slot 1 *)

\* results.set(movie.id, searchResult); completed++; onProgress; then the
\* delay of 100 ms after a match and of 50 ms after null
MovieRecord(S) ==
  LET S1 == RecordResult(S, 1)
      found == S.calls[1].pc = "resolved" /\ S.calls[1].value # NULL IN
  [S1 EXCEPT !.batch.pc = "idelay",
             !.batch.timer = S1.now + Units(IF found THEN MOVIE_DELAY_MS
                                            ELSE MOVIE_NULL_DELAY_MS)]

\* after fetchWatchProviders: attach them, then the extra delay of 50 ms
MovieAfterProviders(S, providers) ==
  LET S1 == IF providers # NULL
            THEN AssignResult(S, 1, "watchProviders", providers.flatrate)
            ELSE S IN
  [S1 EXCEPT !.calls[1].pc = "resolved", !.batch.pc = "ddelay",
             !.batch.timer = S1.now + Units(DETAILS_DELAY_MS)]

\* fetchWatchProviders up to its await
fetchWatchProvidersStart(S) ==
  LET key == ProvidersKey(S.calls[1].value) IN
  IF Has(S.cache, key) THEN MovieAfterProviders(S, Get(S.cache, key))
  ELSE Await(S, 1, "providers")

\* fetchWatchProviders resumed by the response
fetchWatchProvidersOn(S, resp) ==
  LET key == ProvidersKey(S.calls[1].value) IN
  IF resp.kind # "ok" THEN MovieAfterProviders(S, NULL)
  ELSE IF Len(resp.list) = 0
  THEN MovieAfterProviders([S EXCEPT !.cache = MapSet(S.cache, key, NULL)], NULL)
  ELSE LET providerData == [type |-> "providers", flatrate |-> resp.list[1].flatrate]
       IN MovieAfterProviders(
            [S EXCEPT !.cache = MapSet(S.cache, key, providerData)], providerData)

\* after fetchMovieDetails: attach the details, go on to the providers
MovieAfterDetails(S, details) ==
  fetchWatchProvidersStart(
    IF details # NULL THEN AssignResult(S, 1, "details", details.runtime) ELSE S)

\* fetchMovieDetails up to its await
fetchMovieDetailsStart(S) ==
  LET key == DetailsKey(S.calls[1].value) IN
  IF Has(S.cache, key) THEN MovieAfterDetails(S, Get(S.cache, key))
  ELSE Await(S, 1, "details")

\* fetchMovieDetails resumed by the response
fetchMovieDetailsOn(S, resp) ==
  LET key == DetailsKey(S.calls[1].value) IN
  IF resp.kind # "ok" THEN MovieAfterDetails(S, NULL)
  ELSE LET details == [type |-> "details", runtime |-> resp.list[1].runtime]
       IN MovieAfterDetails([S EXCEPT !.cache = MapSet(S.cache, key, details)],
                            details)

\* the continuation of batchSearchMovies once searchMovie has settled
MovieSettle(S) ==
  IF S.batch.pc # "item" \/ ~Settled(S.calls[1]) THEN S
  ELSE IF S.calls[1].pc = "resolved" /\ S.calls[1].value # NULL
          /\ S.batch.fetchDetails
  THEN fetchMovieDetailsStart([S EXCEPT !.batch.pc = "enrich"])
  ELSE MovieRecord(S)

MovieRunItem(S, i) ==
  MovieSettle(searchMovieStart([S EXCEPT !.batch.pc = "item", !.batch.first = i],
                               1, i))

\* batchSearchMovies up to its first await
batchSearchMovies(S, movies, apiKey, fetchDetails, quota) ==
  LET S1 == NewBatch(S, movies, apiKey, fetchDetails) IN
  IF Len(movies) = 0 THEN BatchReturn("movie", S1, quota)
  ELSE MovieRunItem(S1, 1)

\* batchSearchMovies resumed by the timer after an item
MovieNext(S, quota) ==
  IF S.batch.first < ItemCount(S) THEN MovieRunItem(S, S.batch.first + 1)
  ELSE BatchReturn("movie", S, quota)

-----------------------------------------------------------------------------
(* Inputs of the model *)

StartTime == 2 * TTL

DocCover   == [key |-> "OL1", title |-> "War and Peace", cover_i |-> "11",
               number_of_pages_median |-> "1225"]
DocNoCover == [key |-> "OL2", title |-> "Dune", cover_i |-> UNDEF,
               number_of_pages_median |-> UNDEF]
DocLong    == [key |-> "OL3", title |-> LongText, cover_i |-> "13",
               number_of_pages_median |-> UNDEF]
Volume     == [thumbnail |-> "http://books.google/1?zoom=1", title |-> "Dune",
               pageCount |-> "412"]
DocPages   == [key |-> "OL4", title |-> "Dune Messiah", cover_i |-> UNDEF,
               number_of_pages_median |-> "604"]
VolumeNoPages == [thumbnail |-> "https://books.google/2", title |-> UNDEF,
                  pageCount |-> UNDEF]


Candidate(id, title, date, popularity, votes, overview) ==
  [id |-> id, title |-> title, original_title |-> title, release_date |-> date,
   name |-> title, original_name |-> title, first_air_date |-> date,
   popularity |-> popularity, vote_count |-> votes,
   poster_path |-> IF id = "101" THEN "/p101.jpg" ELSE UNDEF,
   overview |-> overview]

Fargo1996 == Candidate("101", "Fargo", "1996-04-05", 40, 7000, "plot")
Fargo2014 == Candidate("102", "Fargo", "2014-04-15", 400, 3000, LongText)
DunePart2 == Candidate("103", "Dune: Part Two", "", 0, 0, LongText)

DetailsResponses  == {HttpError, Ok(<<[runtime |-> "98"]>>)}
ProviderResponses == {NetError, Ok(<<[flatrate |-> "Netflix"]>>)}

WarAndPeace  == [title |-> "War and Peace_ru", author |-> JNULL]
DuneBook     == [title |-> "Dune", author |-> "Herbert"]
BadBook      == [title |-> NotAString, author |-> JNULL]

FargoFilm == [title |-> "Film Fargo_ru (1996) - Coen", year |-> 1996,
              isSeries |-> FALSE]
FargoRu   == [title |-> "Fargo_ru", year |-> 1996, isSeries |-> FALSE]
DuneShow  == [title |-> "Dune", year |-> NoYear, isSeries |-> TRUE]
BadMovie  == [title |-> NotAString, year |-> NoYear, isSeries |-> FALSE]

ItemIds == <<"id1", "id2", "id3", "id4", "id5", "id6", "id7", "id8">>

\* item lists of at most max items: distinct ids, every combination of kinds
ItemLists(kinds, max) ==
  UNION { { [i \in 1..n |-> kindOf[i] @@ [id |-> ItemIds[i]]] :
              kindOf \in [1..n -> kinds] } : n \in 0..max }

ApiKeys == {"", "tmdb-key"}

\* blobs left in storage by earlier page sessions (of this or another version)
StoredData(d) ==
  IF d = "book"
  THEN { <<[k |-> BookCacheKey("Dune", "Herbert"),
            v |-> JsonValue(processSearchResult(DocNoCover))],
           [k |-> BookCacheKey("Solaris", JNULL),
            v |-> NULL]>> }
  ELSE { <<[k |-> MovieCacheKey("Dune", NoYear, TRUE),
            v |-> JsonValue(MovieData(DunePart2, TRUE))],
           [k |-> MovieCacheKey("Solaris", 1972, FALSE),
            v |-> NULL]>> }

StoredBlob(ver, exp, data) ==
  [kind |-> "blob", version |-> ver, expiry |-> exp, data |-> data]

StoredBlobs(d) ==
  {NoBlob}
  \cup { StoredBlob(CACHE_VERSION(d), exp, data) :
           exp \in {StartTime - 1, StartTime, StartTime + TTL - 1},
           data \in StoredData(d) }
  \cup { StoredBlob(ver, exp, data) :
           ver \in {1, 2} \ {CACHE_VERSION(d)},
           exp \in {StartTime - 1, StartTime + TTL - 1},
           data \in StoredData(d) }

-----------------------------------------------------------------------------
(* The task source (Todoist): fetchWithRetry and the operations that call it *)

MAX_RETRIES     == 3
BACKOFF_BASE_MS == 1000

\* what fetch() can do: reject (no response), or resolve to a response
Rejects == [type |-> "reject"]
Response(status) ==
  [type |-> "response", status |-> status, ok |-> status \in 200..299]

NoFetch ==
  [pc |-> "idle", op |-> "", stage |-> "", attempt |-> 0, timer |-> NoTimer,
   sections |-> FALSE, log |-> <<>>, outcome |-> [type |-> "none"]]

\* an entry of the history of the operation
Event(ev, F, t, n) ==
  [ev |-> ev, stage |-> F.stage, attempt |-> F.attempt, at |-> t, n |-> n]

Throw(F, message) ==
  [F EXCEPT !.pc = "thrown", !.outcome = [type |-> "thrown", error |-> message]]

Return(F, value) ==
  [F EXCEPT !.pc = "returned", !.outcome = [type |-> "returned", value |-> value]]

\* await fetch(url, options)
fetchRequest(F, t) ==
  [F EXCEPT !.pc = "fetching", !.log = Append(@, Event("request", F, t, 0))]

\* fetchWithRetry up to its first await: attempt = 0
fetchWithRetry(F, stage, t) ==
  fetchRequest([F EXCEPT !.stage = stage, !.attempt = 0], t)

NetworkMessage ==
  [msg |-> "Oshibka seti. Proverte internet-soedinenie.", status |-> 0]

\* (variant: the catch block gives up at once)
fetchWithRetryOnRejectNoRetry(F, t) ==
  Throw([F EXCEPT !.log = Append(@, Event("reject", F, t, 0))], NetworkMessage)

\* the catch block of fetchWithRetry: wait 2^attempt seconds unless this was
\* the last attempt; after the last attempt the loop ends and the error is thrown
fetchWithRetryOnReject(F, t) ==
  LET F1 == [F EXCEPT !.log = Append(@, Event("reject", F, t, 0))] IN
  IF F.attempt < MAX_RETRIES - 1
  THEN LET delay == (2 ^ F.attempt) * BACKOFF_BASE_MS IN
       [F1 EXCEPT !.pc = "backoff", !.timer = t + Units(delay),
                  !.log = Append(@, Event("delay", F, t, delay))]
  ELSE Throw(F1, NetworkMessage)

\* the backoff delay is over: attempt++ and the next fetch
fetchWithRetryOnDelay(F, t) ==
  fetchRequest([F EXCEPT !.attempt = @ + 1, !.timer = NoTimer], t)

\* (variant: an error status is handled as a network failure)
fetchWithRetryOnResponseRetryStatus(F, resp, t) ==
  IF resp.ok
  THEN [F EXCEPT !.pc = "responded",
                 !.log = Append(@, Event("response", F, t, resp.status))]
  ELSE fetchWithRetryOnReject(
         [F EXCEPT !.log = Append(@, Event("response", F, t, resp.status))], t)

\* fetch resolved: return response, whatever its status
fetchWithRetryOnResponse(F, resp, t) ==
  [F EXCEPT !.pc = "responded",
            !.log = Append(@, Event("response", F, t, resp.status))]

StatusMessage(status) == [msg |-> "Oshibka Todoist", status |-> status]

\* the messages of fetchMovies / fetchBooks for the tasks request
TasksMessage(status) ==
  IF status = 401 THEN [msg |-> "Nevernyj Todoist token. Proverte nastrojki.", status |-> 0]
  ELSE IF status = 403 THEN [msg |-> "Net dostupa k proektu v Todoist.", status |-> 0]
  ELSE IF status >= 500
       THEN [msg |-> "Server Todoist vremenno nedostupen. Poprobujte pozzhe.", status |-> 0]
  ELSE StatusMessage(status)

TokenMessage == [msg |-> "Todoist API token is required", status |-> 0]

\* an operation up to its first await
TodoistCall(op, apiToken, t) ==
  LET F == [NoFetch EXCEPT !.op = op] IN
  IF apiToken = "" THEN Throw(F, TokenMessage)
  ELSE IF op = "fetchMovies" THEN fetchWithRetry(F, "sections", t)
  ELSE IF op = "fetchBooks" THEN fetchWithRetry(F, "projects", t)
  ELSE fetchWithRetry(F, "close", t)

\* fetchMovies after one of its requests was answered
fetchMoviesOn(F, resp, t) ==
  IF F.stage = "sections"
  THEN fetchWithRetry([F EXCEPT !.sections = resp.ok], "tasks", t)
  ELSE IF ~resp.ok THEN Throw(F, TasksMessage(resp.status))
  ELSE Return(F, "movies")

\* fetchBooks (findBooksProject, fetchBooksSections, the tasks request) after
\* one of its requests was answered; the project is among the projects
fetchBooksOn(F, resp, t) ==
  IF F.stage = "projects"
  THEN IF ~resp.ok THEN Throw(F, StatusMessage(resp.status))
       ELSE fetchWithRetry(F, "sections", t)
  ELSE IF F.stage = "sections"
  THEN IF ~resp.ok THEN Throw(F, StatusMessage(resp.status))
       ELSE fetchWithRetry([F EXCEPT !.sections = TRUE], "tasks", t)
  ELSE IF ~resp.ok THEN Throw(F, TasksMessage(resp.status))
  ELSE Return(F, "books")

\* completeTask / completeBookTask after its request was answered
completeTaskOn(F, resp) ==
  IF ~resp.ok THEN Throw(F, StatusMessage(resp.status)) ELSE Return(F, "true")

\* the operation resumes with the response that fetchWithRetry returned
Resume(F, resp, t) ==
  IF F.pc # "responded" THEN F
  ELSE IF F.op = "fetchMovies" THEN fetchMoviesOn(F, resp, t)
  ELSE IF F.op = "fetchBooks" THEN fetchBooksOn(F, resp, t)
  ELSE completeTaskOn(F, resp)

-----------------------------------------------------------------------------
(* The text parsers: parseMovieInfo and parseBookInfo.  A title is the     *)
(* sequence of the pieces that the regular expressions tell apart.         *)

NoCount == NoYear     \* episodes, seasons = null

\* SECTION_NAMES[task.section_id]
SECTION_NAMES(id) ==
  IF id = "RULES" THEN "Pravila"
  ELSE IF id = "WATCHING_NOW" THEN "Smotryu sejchas"
  ELSE IF id = "MOVIES" THEN "Filmy"
  ELSE IF id = "SERIES" THEN "Serialy"
  ELSE IF id = "TOP_25" THEN "25 glavnyh filmov XXI veka"
  ELSE UNDEF

\* actualSections[task.section_id] || SECTION_NAMES[task.section_id] || 'Drugoe'
SectionName(task, actualSections) ==
  IF task.section_id \in DOMAIN actualSections
       /\ ~Falsy(actualSections[task.section_id])
  THEN actualSections[task.section_id]
  ELSE IF ~Falsy(SECTION_NAMES(task.section_id))
  THEN SECTION_NAMES(task.section_id)
  ELSE "Drugoe"

\* sectionName.toLowerCase().includes('serial')
IncludesSerial(sectionName) ==
  sectionName \in {"Serialy", "SERIALY", "Mini-serialy HBO"}

\* allTasks.filter(t => t.parent_id === task.id)
Subtasks(task, allTasks) ==
  SelectSeq(allTasks, LAMBDA t : t.parent_id = task.id)

IsDigits(c) == c \in {"1", "2", "4", "7", "16", "1996"}      \* \d+
DigitsValue(c) ==                                            \* parseInt
  IF c = "1" THEN 1 ELSE IF c = "2" THEN 2 ELSE IF c = "4" THEN 4
  ELSE IF c = "7" THEN 7 ELSE IF c = "16" THEN 16 ELSE 1996

\* /[Ss]ezon\s*(\d+)/i matches at piece i: the digits are at piece j
SeasonAt(t, i, j) ==
  /\ t[i] \in {"Sezon", "sezon", "SEZON"}
  /\ j > i /\ j <= Len(t) /\ IsDigits(t[j])
  /\ \A h \in (i + 1)..(j - 1) : IsSpace(t[h])

\* parseInt(seasonMatch[1]) of the first match, or no match
SeasonOf(t) ==
  IF \A i, j \in 1..Len(t) : ~SeasonAt(t, i, j) THEN NoCount
  ELSE LET i == CHOOSE h \in 1..Len(t) :
                  /\ \E j \in 1..Len(t) : SeasonAt(t, h, j)
                  /\ \A g \in 1..(h - 1) : \A j \in 1..Len(t) : ~SeasonAt(t, g, j)
       IN DigitsValue(t[CHOOSE j \in 1..Len(t) : SeasonAt(t, i, j)])

\* seasonNumbers
SeasonNumbers(subtasks) ==
  {SeasonOf(subtasks[i].content) : i \in 1..Len(subtasks)} \ {NoCount}

\* (variant: the season of the first subtask that names one)
SeasonsOfFirst(subtasks) ==
  IF SeasonNumbers(subtasks) = {} THEN NoCount
  ELSE SeasonOf(subtasks[CHOOSE i \in 1..Len(subtasks) :
         /\ SeasonOf(subtasks[i].content) # NoCount
         /\ \A h \in 1..(i - 1) : SeasonOf(subtasks[h].content) = NoCount].content)

\* info.seasons: Math.max(...seasonNumbers) if seasonNumbers.size > 0
SeasonsOf(subtasks) ==
  IF SeasonNumbers(subtasks) = {} THEN NoCount
  ELSE CHOOSE k \in SeasonNumbers(subtasks) :
         \A n \in SeasonNumbers(subtasks) : n <= k

\* (variant: the section name decides before the Watching Now section does)
SeriesOfNameFirst(task, allTasks, sectionName) ==
  \/ sectionName = "Serialy" \/ IncludesSerial(sectionName)
  \/ task.section_id = "SERIES"
  \/ Len(Subtasks(task, allTasks)) > 0

\* info.isSeries, as lines 94-136 assign it
SeriesOf(task, allTasks, sectionName) ==
  LET isSeriesSection == \/ sectionName = "Serialy"
                         \/ IncludesSerial(sectionName)
                         \/ task.section_id = "SERIES"
      afterSubtasks ==
        IF Len(allTasks) > 0
        THEN IF Len(Subtasks(task, allTasks)) > 0 THEN TRUE
             ELSE IF task.section_id = "WATCHING_NOW"
             THEN IF task.section_id # "SERIES" THEN FALSE ELSE isSeriesSection
             ELSE isSeriesSection
        ELSE IF task.section_id = "WATCHING_NOW"
        THEN IF task.section_id # "SERIES" THEN FALSE ELSE isSeriesSection
        ELSE isSeriesSection
  IN IF task.section_id = "SERIES" THEN TRUE ELSE afterSubtasks

IsMarker(c) == c = "BULLET" \/ c = "*" \/ c = "#" \/ IsDigits(c)   \* [•*#\d]

\* .replace(/^[•*#\d]+\s*/, '')
RECURSIVE StripMarkers(_)
StripMarkers(t) ==
  IF t # <<>> /\ IsMarker(Head(t))
  THEN IF Len(t) > 1 /\ IsMarker(t[2]) THEN StripMarkers(Tail(t))
       ELSE TrimStart(Tail(t))
  ELSE t

\* .replace(/^\d+\s+/, '')
StripNumber(t) ==
  LET n == CHOOSE k \in 0..Len(t) :
             /\ \A h \in 1..k : IsDigits(t[h])
             /\ k = Len(t) \/ ~IsDigits(t[k + 1])
  IN IF n >= 1 /\ n < Len(t) /\ IsSpace(t[n + 1])
     THEN TrimStart(SubSeq(t, n + 1, Len(t))) ELSE t

\* the title cleaned from markers
CleanMarkers(t) == Trim(StripNumber(StripMarkers(t)))

HasYear(t) == \E i \in 1..Len(t) : IsYearParen(t[i])
FirstYearAt(t) ==
  CHOOSE i \in 1..Len(t) : IsYearParen(t[i]) /\ \A h \in 1..(i - 1) : ~IsYearParen(t[h])

\* parseInt(yearMatch[1])
YearValue(c) == IF c = "(1996)" THEN 1996 ELSE 2014

\* title.match(/\((\d{4})\)/): the year of the first match, or null
YearOf(t) == IF HasYear(t) THEN YearValue(t[FirstYearAt(t)]) ELSE NoYear

\* .replace(/\s*\(\d{4}\)\s*/, ' ').trim(): the first match only
ReplaceYear(t) ==
  IF ~HasYear(t) THEN Trim(t)
  ELSE Trim(TrimEnd(SubSeq(t, 1, FirstYearAt(t) - 1)) \o <<" ">>
              \o TrimStart(SubSeq(t, FirstYearAt(t) + 1, Len(t))))

\* directorMatch[1].trim(): what follows the first em dash, or null
DirectorOf(t) ==
  IF \A i \in 1..Len(t) : ~MovieDashAt(t, i) THEN JNULL
  ELSE LET i == CHOOSE j \in 1..Len(t) :
                  MovieDashAt(t, j) /\ \A h \in 1..(j - 1) : ~MovieDashAt(t, h)
       IN Trim(SubSeq(t, i + 1, Len(t)))

\* parseMovieInfo(task, allTasks, actualSections): the fields the claims read
parseMovieInfo(task, allTasks, actualSections) ==
  LET sectionName == SectionName(task, actualSections)
      subtasks == IF Len(allTasks) > 0 THEN Subtasks(task, allTasks) ELSE <<>>
      cleaned == CleanMarkers(task.content)
  IN [title       |-> ReplaceYear(Trim(RemoveDirector(cleaned))),
      year        |-> YearOf(cleaned),
      director    |-> DirectorOf(cleaned),
      sectionName |-> sectionName,
      isSeries    |-> SeriesOf(task, allTasks, sectionName),
      episodes    |-> IF Len(subtasks) > 0 THEN Len(subtasks) ELSE NoCount,
      seasons     |-> IF Len(subtasks) > 0 THEN SeasonsOf(subtasks) ELSE NoCount]

\* /^(.+?)\s*[---]\s*([^(]+?)(?:\s*\(|$)/ matches with its dash at piece d:
\* text before the dash, and after it a character that is not a parenthesis
AuthorDashAt(t, d) ==
  /\ d >= 2 /\ d < Len(t)
  /\ t[d] \in {"EMDASH", "ENDASH", "HYPHEN"}
  /\ ~IsYearParen(t[d + 1])

HasAuthorDash(t) == \E d \in 1..Len(t) : AuthorDashAt(t, d)
FirstAuthorDash(t) ==
  CHOOSE d \in 1..Len(t) : AuthorDashAt(t, d) /\ \A h \in 1..(d - 1) : ~AuthorDashAt(t, h)

\* authorMatch[1].trim()
AuthorPart1(t) == Trim(SubSeq(t, 1, FirstAuthorDash(t) - 1))

\* authorMatch[2].trim(): up to the first parenthesis after the dash
AuthorPart2(t) ==
  LET d == FirstAuthorDash(t)
      stop == IF \E i \in (d + 1)..Len(t) : IsYearParen(t[i])
              THEN CHOOSE i \in (d + 1)..Len(t) :
                     IsYearParen(t[i]) /\ \A h \in (d + 1)..(i - 1) : ~IsYearParen(t[h])
              ELSE Len(t) + 1
  IN Trim(SubSeq(t, d + 1, stop - 1))

\* /^\d{4}$/.test(part2)
IsBareYear(part) == part = <<"1996">>

\* parseBookInfo(task, allTasks, sections): the fields the claims read
parseBookInfo(task) ==
  LET cleaned == CleanMarkers(task.content)
      split == HasAuthorDash(cleaned)
      bare == split /\ IsBareYear(AuthorPart2(cleaned))
      cleanedTitle == IF split THEN AuthorPart1(cleaned) ELSE cleaned
  IN [title  |-> IF HasYear(cleanedTitle) THEN ReplaceYear(cleanedTitle)
                 ELSE cleanedTitle,
      year   |-> IF HasYear(cleanedTitle) THEN YearOf(cleanedTitle)
                 ELSE IF bare THEN DigitsValue(AuthorPart2(cleaned)[1])
                 ELSE NoYear,
      author |-> IF split /\ ~bare THEN AuthorPart2(cleaned) ELSE JNULL]

-----------------------------------------------------------------------------
(* Initial state and actions *)

NoMatch == [op |-> "none"]
NoParse == [op |-> "none"]
NoSave  == [kind |-> "none"]
\* the page component is not mounted
NoApp   == [mounted |-> FALSE]

InitPage ==
  /\ now = StartTime
  /\ cache = <<>>
  /\ saveCacheTimeout = NoTimer
  /\ booted = FALSE
  /\ batch = NoBatch
  /\ calls = [sl \in Slots |-> IdleCall]
  /\ progress = <<>>
  /\ env \in {[events |-> 0, saves |-> 0, full |-> f] : f \in BOOLEAN}
  /\ match = NoMatch
  /\ fetch = NoFetch
  /\ parsed = NoParse
  /\ app = NoApp
  /\ lastOp = [op |-> "init"]
  /\ lastSave = NoSave

\* a step of the page's code: S is the page after it
Step(S, op) ==
  /\ SetPage(S)
  /\ lastOp' = op
  /\ UNCHANGED <<dom, now, booted, env, match, fetch, parsed, app>>

\* module initialisation: loadCacheFromStorage()
Boot ==
  /\ ~booted
  /\ booted' = TRUE
  /\ cache' = LoadedCache(dom, cache, storage, now)
  /\ storage' = LoadedStorage(dom, storage, now)
  /\ lastOp' = [op |-> "load", blob |-> storage, at |-> now]
  /\ UNCHANGED <<dom, now, saveCacheTimeout, batch, calls, progress,
                 env, match, fetch, parsed, app, lastSave>>

\* the page calls batchSearchBooks(books, onProgress)
StartBookBatch(W) ==
  /\ dom = "book" /\ booted
  /\ batch.pc \in {"idle", "done"} /\ batch.count < W.batches
  /\ \E books \in W.books :
       Step(batchSearchBooks(Page, books, env.full), [op |-> "start"])

\* the page calls batchSearchMovies(movies, apiKey, onProgress, fetchDetails)
StartMovieBatch(W) ==
  /\ dom = "movie" /\ booted
  /\ batch.pc \in {"idle", "done"} /\ batch.count < W.batches
  /\ \E movies \in W.movies, apiKey \in W.apiKeys,
        fetchDetails \in W.fetchDetails :
       Step(batchSearchMovies(Page, movies, apiKey, fetchDetails, env.full),
            [op |-> "start"])

\* Open Library answers the title+author query of a lookup
BookAuthorResponse(W) ==
  \E slot \in Slots, resp \in W.openLib :
    /\ dom = "book" /\ calls[slot].pc = "ol1"
    /\ Step(BookSettle(searchBookOnAuthorQuery(Page, slot, resp), env.full),
            [op |-> "response", slot |-> slot, resp |-> resp])

\* Open Library answers the title-only query of a lookup
BookTitleResponse(W) ==
  \E slot \in Slots, resp \in W.openLib :
    /\ dom = "book" /\ calls[slot].pc = "ol2"
    /\ Step(BookSettle(searchBookOnTitleQuery(Page, slot, resp), env.full),
            [op |-> "response", slot |-> slot, resp |-> resp])

\* Google Books answers a lookup
BookGoogleResponse(W) ==
  \E slot \in Slots, resp \in W.google :
    /\ dom = "book" /\ calls[slot].pc = "gb"
    /\ Step(BookSettle(searchBookOnGoogle(Page, slot, resp), env.full),
            [op |-> "response", slot |-> slot, resp |-> resp])

\* the delay between two groups of batchSearchBooks is over
BookDelayFire ==
  /\ dom = "book" /\ batch.pc = "delay" /\ now >= batch.timer
  /\ Step(BookRunGroup([Page EXCEPT !.batch.timer = NoTimer],
                       batch.first + BATCH_SIZE, env.full),
          [op |-> "nextGroup", armed |-> batch.timer])

\* TMDB answers the first query of searchMovie
MovieSearchResponse(W) ==
  \E resp \in W.tmdb :
    /\ dom = "movie" /\ calls[1].pc = "q1"
    /\ Step(MovieSettle(searchMovieOnFirst(Page, 1, resp)),
            [op |-> "response", slot |-> 1, resp |-> resp])

\* TMDB answers the query in the other language
MovieFallbackResponse(W) ==
  \E resp \in W.tmdb :
    /\ dom = "movie" /\ calls[1].pc \in {"q2", "q3"}
    /\ Step(MovieSettle(searchMovieOnFallback(Page, 1, resp)),
            [op |-> "response", slot |-> 1, resp |-> resp])

\* TMDB answers the query without the year
MovieYearlessResponse(W) ==
  \E resp \in W.tmdb :
    /\ dom = "movie" /\ calls[1].pc = "q4"
    /\ Step(MovieSettle(searchMovieOnYearless(Page, 1, resp)),
            [op |-> "response", slot |-> 1, resp |-> resp])

\* TMDB answers fetchMovieDetails
MovieDetailsResponse ==
  \E resp \in DetailsResponses :
    /\ dom = "movie" /\ calls[1].pc = "details"
    /\ Step(fetchMovieDetailsOn(Page, resp), [op |-> "response"])

\* TMDB answers fetchWatchProviders
MovieProvidersResponse ==
  \E resp \in ProviderResponses :
    /\ dom = "movie" /\ calls[1].pc = "providers"
    /\ Step(fetchWatchProvidersOn(Page, resp), [op |-> "response"])

\* the extra delay after the details requests is over
MovieDetailsDelayFire ==
  /\ dom = "movie" /\ batch.pc = "ddelay" /\ now >= batch.timer
  /\ Step(MovieRecord(Page), [op |-> "record"])

\* the delay after an item of batchSearchMovies is over
MovieItemDelayFire ==
  /\ dom = "movie" /\ batch.pc = "idelay" /\ now >= batch.timer
  /\ Step(MovieNext([Page EXCEPT !.batch.timer = NoTimer], env.full),
          [op |-> "nextItem", armed |-> batch.timer])

\* the debounce timer fires: saveCacheToStorage(); saveCacheTimeout = null
DebounceFire ==
  /\ saveCacheTimeout # NoTimer /\ now >= saveCacheTimeout
  /\ env' = [env EXCEPT !.saves = env.saves + 1]
  /\ lastOp' = [op |-> "debouncedSave"]
  /\ SetPage(SavePage(dom, [Page EXCEPT !.saveCacheTimeout = NoTimer], env.full))
  /\ UNCHANGED <<dom, now, booted, match, fetch, parsed, app>>

\* clearOpenLibCache / clearTmdbCache
Clear ==
  /\ booted /\ env.events < MaxEvents
  /\ env' = [env EXCEPT !.events = env.events + 1]
  /\ lastOp' = [op |-> "clear"]
  /\ SetPage([Page EXCEPT !.cache = <<>>, !.storage = NoBlob, !.lastSave = NoSave])
  /\ UNCHANGED <<dom, now, booted, match, fetch, parsed, app>>

Deadlines ==
  {t \in {saveCacheTimeout, batch.timer, fetch.timer} : t # NoTimer /\ t > now}

\* time passes until the next timer is due
Tick ==
  /\ Deadlines # {}
  /\ now' = CHOOSE t \in Deadlines : \A u \in Deadlines : t <= u
  /\ now' = saveCacheTimeout => env.saves < MaxSaves
  /\ lastOp' = [op |-> "tick"]
  /\ UNCHANGED <<dom, storage, cache, saveCacheTimeout, booted, batch, calls,
                 progress, env, match, fetch, parsed, app, lastSave>>

\* the cache lifetime passes while nothing runs
Sleep ==
  /\ env.events < MaxEvents
  /\ Deadlines = {} /\ InFlight(calls) = {}
  /\ now' = now + TTL
  /\ env' = [env EXCEPT !.events = env.events + 1]
  /\ lastOp' = [op |-> "sleep"]
  /\ UNCHANGED <<dom, storage, cache, saveCacheTimeout, booted, batch, calls,
                 progress, match, fetch, parsed, app, lastSave>>

\* the page is reloaded: only localStorage survives
Reload ==
  /\ env.events < MaxEvents
  /\ env' = [env EXCEPT !.events = env.events + 1]
  /\ booted' = FALSE
  /\ cache' = <<>>
  /\ saveCacheTimeout' = NoTimer
  /\ batch' = [NoBatch EXCEPT !.count = batch.count]
  /\ calls' = [sl \in Slots |-> IdleCall]
  /\ progress' = <<>>
  /\ lastOp' = [op |-> "reload"]
  /\ UNCHANGED <<dom, now, storage, match, fetch, parsed, app, lastSave>>

-----------------------------------------------------------------------------
(* Spec: the persistent cache over page sessions.  Short batches fill the  *)
(* cache; time passes, the cache is cleared, the page is reloaded.         *)

CacheWork ==
  [books   |-> ItemLists({WarAndPeace, DuneBook}, MaxCacheItems),
   movies  |-> ItemLists({FargoRu, DuneShow}, MaxCacheItems),
   batches |-> MaxBatches,
   apiKeys |-> {"tmdb-key"},
   fetchDetails |-> {FALSE},
   openLib |-> {Ok(<<>>), Ok(<<DocNoCover>>), Ok(<<DocLong>>)},
   google  |-> {HttpError, Ok(<<Volume>>)},
   tmdb    |-> {Ok(<<>>), Ok(<<Fargo2014, DunePart2>>)}]

Init ==
  /\ dom \in {"book", "movie"}
  /\ storage \in StoredBlobs(dom)
  /\ InitPage

Next ==
  \/ Boot
  \/ StartBookBatch(CacheWork)
  \/ StartMovieBatch(CacheWork)
  \/ BookAuthorResponse(CacheWork)
  \/ BookTitleResponse(CacheWork)
  \/ BookGoogleResponse(CacheWork)
  \/ MovieSearchResponse(CacheWork)
  \/ MovieFallbackResponse(CacheWork)
  \/ MovieYearlessResponse(CacheWork)
  \/ MovieItemDelayFire
  \/ DebounceFire
  \/ Clear
  \/ Tick
  \/ Sleep
  \/ Reload

Spec == Init /\ [][Next]_vars

-----------------------------------------------------------------------------
(* Properties of the persistent cache (Spec) *)

\* the state right after loadCacheFromStorage, which read the blob lastOp.blob
JustLoaded == lastOp.op = "load"
LoadedABlob == JustLoaded /\ lastOp.blob # NoBlob

\* the load follows a saveCacheToStorage of this code, before the expiry
\* time that save wrote
LoadAfterSave ==
  /\ JustLoaded
  /\ lastSave.kind = "save"
  /\ lastOp.at < lastSave.at + TTL

\* every entry the cache held at the save is served again after the load
SavedEntriesRestored ==
  \A i \in 1..Len(lastSave.mem) :
    /\ Has(cache, lastSave.mem[i].k)
    /\ SameValue(Get(cache, lastSave.mem[i].k), lastSave.mem[i].v)

\* the whole cache fitted the size threshold of saveCacheToStorage
SaveFitted ==
  JsonLength([data |-> JsonData(lastSave.mem)]) <= MAX_JSON_LENGTH

\* C1 as stated: every entry k -> v (also v = null) of the in-memory cache
\* survives saveCacheToStorage followed by loadCacheFromStorage into an
\* empty map, for the same cache version and before the expiry time.
C1_RoundTripAlways == LoadAfterSave => SavedEntriesRestored

\* C1 amended: the round trip holds when the serialised cache did not exceed
\* the size threshold and the write to storage did not fail on the quota.
C1_RoundTrip ==
  (LoadAfterSave /\ SaveFitted /\ ~lastSave.quota) => SavedEntriesRestored

C1_Witness ==
  /\ LoadAfterSave /\ SaveFitted /\ ~lastSave.quota
  /\ \E i \in 1..Len(lastSave.mem) : lastSave.mem[i].v = NULL
  /\ \E i \in 1..Len(lastSave.mem) :
       /\ lastSave.mem[i].v # NULL
       /\ \E f \in DOMAIN lastSave.mem[i].v : lastSave.mem[i].v[f] = UNDEF

\* C2 as stated: the load populates the map only if the stored expiry is
\* later than the current time; an expired blob is removed as a whole and
\* none of its keys is served.
C2_PopulatedOnlyBeforeExpiry ==
  LoadedABlob =>
    /\ (cache # <<>> => lastOp.blob.expiry > lastOp.at)
    /\ (lastOp.blob.expiry < lastOp.at => storage = NoBlob /\ cache = <<>>)

\* C2 amended: the load populates the map only if the stored expiry is not
\* earlier than the current time (a blob read at exactly its expiry time is
\* still served); an expired blob is removed as a whole and none of its keys
\* is served.
C2_ExpiryAllOrNothing ==
  LoadedABlob =>
    /\ (cache # <<>> => lastOp.blob.expiry >= lastOp.at)
    /\ (lastOp.blob.expiry < lastOp.at => storage = NoBlob /\ cache = <<>>)

C2_Witness ==
  /\ LoadedABlob
  /\ lastOp.blob.version = CACHE_VERSION(dom)
  /\ lastOp.blob.expiry < lastOp.at
  /\ Len(lastOp.blob.data) >= 2

\* C3: a blob whose version differs from CACHE_VERSION is removed as a whole
\* and none of its entries is loaded, whatever its expiry.
C3_VersionInvalidation ==
  (LoadedABlob /\ lastOp.blob.version # CACHE_VERSION(dom)) =>
    storage = NoBlob /\ cache = <<>>

C3_Witness ==
  /\ LoadedABlob
  /\ lastOp.blob.version # CACHE_VERSION(dom)
  /\ lastOp.blob.expiry > lastOp.at
  /\ Len(lastOp.blob.data) >= 2

-----------------------------------------------------------------------------
(* SpecMatch: findBestMatch on every short list of candidates *)

MatchTitles == {"Dune", "Dune: Part Two", "The Dune", "Solaris"}
MatchDates  == {"1996-04-05", "1997-02-01", "1998-02-01", "2014-04-15", ""}
MatchFame   == {<<0, 0>>, <<400, 5000>>}     \* popularity, vote_count

MatchCandidates ==
  { Candidate("1", title, date, fame[1], fame[2], "plot") :
      title \in MatchTitles, date \in MatchDates, fame \in MatchFame }

MatchLists ==
  UNION { [1..n -> MatchCandidates] : n \in 0..MaxResults }

InitMatch ==
  /\ dom = "movie"
  /\ storage = NoBlob
  /\ InitPage

\* findBestMatch(results, searchTitle, year, isTV)
FindBestMatchCall ==
  /\ match = NoMatch
  /\ \E results \in MatchLists, year \in {NoYear, 1996}, isTV \in BOOLEAN :
       match' = [op |-> "findBestMatch", results |-> results,
                 searchTitle |-> "Dune", year |-> year, isTV |-> isTV,
                 index |-> findBestMatch(results, "Dune", year, isTV)]
  /\ UNCHANGED <<dom, now, storage, cache, saveCacheTimeout, booted, batch,
                 calls, progress, env, fetch, parsed, app, lastOp, lastSave>>

NextMatch == FindBestMatchCall

SpecMatch == InitMatch /\ [][NextMatch]_vars

Matched == match.op = "findBestMatch"
MatchScore(i) ==
  Score(match.results[i], ToLowerCase(match.searchTitle), match.year, match.isTV)
MatchClass(i) ==
  TitleClass(match.results[i], ToLowerCase(match.searchTitle), match.isTV)
MatchYear(i) == ResultYear(match.results[i], match.isTV)
MatchIndexes == 1..Len(match.results)

\* C5: for every non-empty candidate list, of any length, whose best score
\* is below the threshold (80 with a target year, 30 without), findBestMatch
\* returns null.
C5_LowConfidenceRejected ==
  (Matched /\ match.results # <<>>) =>
    ( (\A i \in MatchIndexes : MatchScore(i) < SCORE_SCALE * MinScore(match.year))
        => match.index = 0 )

\* C6: with a target year, findBestMatch returns a candidate as soon as one
\* has the target year, and never returns a candidate of another year when a
\* candidate of the same title-match class has the target year.
C6_YearDominance ==
  (Matched /\ Truthy(match.year)
     /\ \E j \in MatchIndexes : MatchYear(j) = match.year) =>
    /\ match.index # 0
    /\ MatchYear(match.index) # match.year =>
         \A j \in MatchIndexes :
           MatchYear(j) = match.year => MatchClass(j) # MatchClass(match.index)

C6_Witness ==
  /\ Matched /\ match.year = 1996 /\ Len(match.results) = 2
  /\ MatchYear(1) = 2014 /\ MatchYear(2) = 1996
  /\ MatchClass(1) = "exact" /\ MatchClass(2) = "exact"
  /\ match.results[1].popularity = 400 /\ match.results[2].popularity = 0
  /\ match.index = 2

-----------------------------------------------------------------------------
(* SpecBatch: one batch of the page, over every short list of items, with  *)
(* lookups that throw, items that share a cache key and a cache that may   *)
(* already hold entries of an earlier session.                             *)

BatchWork ==
  [books   |-> ItemLists({DuneBook, BadBook}, MaxItems),
   movies  |-> ItemLists({FargoFilm, DuneShow, BadMovie}, MaxMovies),
   batches |-> 1,
   apiKeys |-> ApiKeys,
   fetchDetails |-> BOOLEAN,
   openLib |-> {Ok(<<>>), Ok(<<DocCover>>)},
   google  |-> {HttpError, Ok(<<Volume>>)},
   tmdb    |-> {NetError, HttpError, Ok(<<>>), Ok(<<Fargo1996>>),
                Ok(<<Fargo2014, DunePart2>>)}]

InitBatch ==
  /\ dom \in {"book", "movie"}
  /\ storage \in {NoBlob} \cup { StoredBlob(CACHE_VERSION(dom), StartTime + TTL - 1, data) :
                                   data \in StoredData(dom) }
  /\ InitPage

NextBatch ==
  \/ Boot
  \/ StartBookBatch(BatchWork)
  \/ StartMovieBatch(BatchWork)
  \/ BookAuthorResponse(BatchWork)
  \/ BookTitleResponse(BatchWork)
  \/ BookGoogleResponse(BatchWork)
  \/ BookDelayFire
  \/ MovieSearchResponse(BatchWork)
  \/ MovieFallbackResponse(BatchWork)
  \/ MovieYearlessResponse(BatchWork)
  \/ MovieDetailsResponse
  \/ MovieProvidersResponse
  \/ MovieDetailsDelayFire
  \/ MovieItemDelayFire
  \/ DebounceFire
  \/ Tick

SpecBatch == InitBatch /\ [][NextBatch]_vars

-----------------------------------------------------------------------------
(* Properties of the lookups and of the batches (SpecBatch) *)

\* the cache key of the lookup of an item whose title is a string
CallKey(item) ==
  IF dom = "book"
  THEN BookCacheKey(SearchTitle("book", CleanBookTitle(item.title)), item.author)
  ELSE MovieCacheKey(CleanMovieTitle(item.title), item.year, item.isSeries)

\* a lookup that waits at one of these has issued a request to a provider
SearchPcs == {"ol1", "ol2", "gb", "q1", "q2", "q3", "q4"}

\* the step started the lookups that the slots now hold
StartsLookups ==
  \/ lastOp'.op = "start" /\ batch'.items # <<>>
  \/ lastOp'.op \in {"nextGroup", "nextItem"} /\ batch'.first # batch.first

\* the lookup started in slot sl found its key in the cache
StartedOnHit(sl) ==
  /\ calls'[sl].pc # "idle"
  /\ batch'.items[calls'[sl].item].title # NotAString
  /\ Has(cache, CallKey(batch'.items[calls'[sl].item]))

\* the lookup in slot sl returned the cached value, without a request and
\* without a change of the cache (the details of a movie are attached by the
\* batch, after searchMovie has returned)
ServedFromCache(sl) ==
  /\ calls'[sl].returned = Get(cache, CallKey(batch'.items[calls'[sl].item]))
  /\ calls'[sl].pc \notin SearchPcs
  /\ (dom = "movie" /\ batch'.fetchDetails) \/ cache' = cache

GroupInSlots ==
  \A sl \in Slots :
    IF batch.first + sl - 1 <= Len(batch.items)
    THEN calls[sl].pc # "idle" /\ calls[sl].item = batch.first + sl - 1
    ELSE calls[sl].pc = "idle"

BookBatchRuns ==
  dom = "book" /\ batch.pc \in {"group", "delay", "done"} /\ batch.items # <<>>

\* groups of at most BATCH_SIZE in list order; the earlier groups are complete
\* while a group runs; the delay is armed only when a group follows
GroupsInOrder ==
  BookBatchRuns =>
    /\ (batch.first - 1) % BATCH_SIZE = 0
    /\ GroupInSlots
    /\ Cardinality(InFlight(calls)) <= BATCH_SIZE
    /\ batch.pc = "group" => batch.completed = batch.first - 1
    /\ batch.pc # "group" =>
         /\ InFlight(calls) = {}
         /\ batch.completed = Min(batch.first + BATCH_SIZE - 1, Len(batch.items))
    /\ batch.pc = "delay" =>
         /\ batch.first + BATCH_SIZE <= Len(batch.items)
         /\ batch.timer # NoTimer
    /\ batch.pc = "done" =>
         /\ batch.first + BATCH_SIZE > Len(batch.items)
         /\ batch.timer = NoTimer

\* a group starts only after the group before it is complete and the delay
\* armed at its completion has elapsed; a delay is always followed by a group
GroupsInSequence ==
  dom = "book" =>
    /\ (batch.pc # "idle" /\ batch'.first # batch.first) =>
         /\ batch.pc = "delay" /\ InFlight(calls) = {}
         /\ now >= batch.timer
         /\ batch'.first = batch.first + BATCH_SIZE
    /\ (batch'.pc = "delay" /\ batch.pc # "delay") =>
         batch'.timer = now + Units(BATCH_DELAY_MS)
    /\ (batch'.pc = "done" /\ batch.pc = "delay") => batch'.first # batch.first

\* C7: batchSearchBooks issues the lookups in consecutive groups of at most 3
\* in list order; a group starts only when every lookup of the group before
\* it has completed and the delay between groups has elapsed; at most 3
\* lookups are in flight; no delay follows the last group.
C7_BatchScheduling == [][GroupsInOrder' /\ GroupsInSequence]_vars

C7_Witness ==
  /\ dom = "book" /\ lastOp.op = "nextGroup"
  /\ batch.pc = "group" /\ batch.first = BATCH_SIZE + 1
  /\ Len(batch.items) > BATCH_SIZE + 1
  /\ Cardinality(InFlight(calls)) >= 2

Throws(item) == item.title = NotAString /\ (dom = "movie" => ~Falsy(batch.apiKey))

\* C8: a batch over items with distinct ids processes every item and returns
\* a map with exactly one entry per item id; the entry of an item whose
\* lookup threw is null and the entry of every other item is the value its
\* own lookup returned.
C8_ErrorIsolation ==
  /\ Len(batch.results) = batch.completed
  /\ batch.completed <= Len(batch.items)
  /\ batch.pc = "done" => batch.completed = Len(batch.items)
  /\ \A i \in 1..batch.completed :
       /\ batch.results[i].k = batch.items[i].id
       /\ Throws(batch.items[i]) => batch.results[i].v = NULL
  /\ \A sl \in Slots :
       (calls[sl].pc = "resolved" /\ calls[sl].item \in 1..batch.completed)
         => batch.results[calls[sl].item].v = calls[sl].value

C8_Witness ==
  /\ batch.pc = "done" /\ Len(batch.items) >= 3
  /\ \E i, j, k \in 1..Len(batch.items) :
       /\ i < j /\ j < k
       /\ batch.results[i].v # NULL /\ Throws(batch.items[j])
       /\ batch.results[k].v # NULL

\* C9: the progress callback is invoked once per completed item, with the
\* counts 1, 2, ..., N and the constant total N, N times by the end of the
\* batch; an item is never counted before its lookup has finished.
C9_Progress ==
  /\ progress = [i \in 1..batch.completed |-> <<i, Len(batch.items)>>]
  /\ batch.pc = "done" => Len(progress) = Len(batch.items)
  /\ \A sl \in Slots :
       calls[sl].pc \notin {"idle", "resolved", "rejected"}
         => calls[sl].item > batch.completed

C9_Witness ==
  /\ batch.pc = "done"
  /\ Len(progress) = Len(batch.items) /\ Len(progress) > BATCH_SIZE

\* the batch function has just returned
JustReturned ==
  batch.pc = "done" /\ lastOp.op \in {"start", "response", "nextGroup", "nextItem"}

\* a reload now would restore every entry of the in-memory cache
BlobHoldsCache ==
  LET restored == LoadedCache(dom, <<>>, storage, now) IN
  \A i \in 1..Len(cache) :
    /\ Has(restored, cache[i].k)
    /\ SameValue(Get(restored, cache[i].k), cache[i].v)

\* C10 as stated: when a batch returns, no debounced save is pending and the
\* persisted blob holds every entry of the in-memory cache.
C10_FlushAlways ==
  JustReturned => saveCacheTimeout = NoTimer /\ BlobHoldsCache

\* C10 amended: when a batch returns, no debounced save is pending; the
\* persisted blob holds every entry of the in-memory cache when the
\* serialised cache did not exceed the size threshold and the write did not
\* fail on the quota.
C10_Flush ==
  JustReturned =>
    /\ saveCacheTimeout = NoTimer
    /\ (SaveFitted /\ ~lastSave.quota) => BlobHoldsCache

C10_Witness ==
  /\ JustReturned /\ SaveFitted /\ ~lastSave.quota
  /\ lastSave.mem = cache /\ Len(cache) >= 2
  /\ storage # NoBlob

-----------------------------------------------------------------------------
(* Debounced persistence *)

\* a step in which a response handler ran cache.set with a new key
CacheSetStep ==
  lastOp'.op = "response" /\ Keys(cache') # Keys(cache)

\* the step ended in the final save of its batch
FinalSaveStep == JustReturned'

\* the timer handle was replaced by one armed in this step
Rearmed ==
  saveCacheTimeout' = now + Units(DEBOUNCE_MS)

\* the pending debounce timer expired in this step and wrote the cache once
DebounceFired ==
  /\ lastOp'.op = "debouncedSave"
  /\ saveCacheTimeout # NoTimer /\ now >= saveCacheTimeout
  /\ saveCacheTimeout' = NoTimer
  /\ lastSave' = [kind |-> "save", mem |-> cache, at |-> now, quota |-> env.full]

\* C11: every cache write cancels the pending save timer and arms a new one
\* that is due one quiet period later, so that writes that follow each other
\* by less than the period are saved by one storage write after the last of
\* them; the storage is written by an expired timer only, once per expiry.
C11_DebounceCoalescing ==
  [][/\ CacheSetStep => (Rearmed \/ FinalSaveStep)
     /\ (lastOp'.op = "debouncedSave") => DebounceFired
     /\ (storage' # storage /\ lastOp'.op \notin {"load", "clear", "reload"})
          => (DebounceFired \/ FinalSaveStep)]_vars

-----------------------------------------------------------------------------
(* SpecRetry: one operation of the task source, over every sequence of     *)
(* network failures and answers                                            *)

ApiTokens == {"", "todoist-token"}
TodoistOps(d) ==
  IF d = "movie" THEN {"fetchMovies", "completeTask"}
  ELSE {"fetchBooks", "completeBookTask"}
TodoistResponses == {Response(st) : st \in {200, 401, 403, 404, 500}}

OtherThanFetch ==
  <<dom, now, storage, cache, saveCacheTimeout, booted, batch, calls,
    progress, env, match, parsed, app, lastOp, lastSave>>

\* the page calls an operation of the task source
TodoistStart ==
  /\ fetch.pc = "idle"
  /\ \E op \in TodoistOps(dom), apiToken \in ApiTokens :
       fetch' = TodoistCall(op, apiToken, now)
  /\ UNCHANGED OtherThanFetch

\* fetch() rejects: no response
TodoistReject ==
  /\ fetch.pc = "fetching"
  /\ fetch' = fetchWithRetryOnReject(fetch, now)
  /\ UNCHANGED OtherThanFetch

\* fetch() resolves to a response
TodoistResponse ==
  /\ fetch.pc = "fetching"
  /\ \E resp \in TodoistResponses :
       fetch' = Resume(fetchWithRetryOnResponse(fetch, resp, now), resp, now)
  /\ UNCHANGED OtherThanFetch

\* the backoff delay of fetchWithRetry is over
RetryDelayFire ==
  /\ fetch.pc = "backoff" /\ now >= fetch.timer
  /\ fetch' = fetchWithRetryOnDelay(fetch, now)
  /\ UNCHANGED OtherThanFetch

InitRetry ==
  /\ dom \in {"book", "movie"}
  /\ storage = NoBlob
  /\ InitPage

NextRetry ==
  \/ TodoistStart
  \/ TodoistReject
  \/ TodoistResponse
  \/ RetryDelayFire
  \/ Tick

SpecRetry == InitRetry /\ [][NextRetry]_vars

\* the events of one kind that the fetchWithRetry call of a stage has logged
StageEvents(stage, ev) ==
  SelectSeq(fetch.log, LAMBDA e : e.stage = stage /\ e.ev = ev)

Stages == {fetch.log[i].stage : i \in 1..Len(fetch.log)}

\* the delays, in milliseconds, that the call of a stage has waited
Delays(stage) ==
  [i \in 1..Len(StageEvents(stage, "delay")) |-> StageEvents(stage, "delay")[i].n]

\* the operation has ended with the network-error message
NetworkThrown ==
  fetch.pc = "thrown" /\ fetch.outcome.error = NetworkMessage

\* fetchWithRetry makes at most MAX_RETRIES requests, a retry follows a failed
\* request after the delay that was armed, the first response ends the call,
\* and the network error is thrown exactly when MAX_RETRIES requests failed
RetryShape ==
  /\ \A stage \in Stages :
       /\ Len(StageEvents(stage, "request")) <= MAX_RETRIES
       /\ Len(StageEvents(stage, "response")) <= 1
       /\ (Len(StageEvents(stage, "reject")) = MAX_RETRIES) <=>
            (NetworkThrown /\ stage = fetch.stage)
  /\ \A i \in 1..Len(fetch.log) :
       LET e == fetch.log[i] IN
       /\ (e.ev = "request" /\ e.attempt > 0) =>
            /\ fetch.log[i-1].ev = "delay" /\ fetch.log[i-2].ev = "reject"
            /\ fetch.log[i-1].attempt = e.attempt - 1
            /\ e.at >= fetch.log[i-1].at + Units(fetch.log[i-1].n)
       /\ (e.ev = "response") =>
            \A j \in (i+1)..Len(fetch.log) : fetch.log[j].stage # e.stage
  /\ NetworkThrown =>
       /\ Len(StageEvents(fetch.stage, "request")) = MAX_RETRIES
       /\ Len(StageEvents(fetch.stage, "response")) = 0
       /\ fetch.log[Len(fetch.log)].ev = "reject"

ErrorStatusAt(i) ==
  fetch.log[i].ev = "response" /\ fetch.log[i].n \notin 200..299

\* the operation threw on the answer logged last, with the message of its status
ThrownOnStatus(i) ==
  /\ i = Len(fetch.log)
  /\ fetch.pc = "thrown"
  /\ fetch.outcome.error =
       IF fetch.log[i].stage = "tasks" THEN TasksMessage(fetch.log[i].n)
       ELSE StatusMessage(fetch.log[i].n)

\* C13 as stated: an answer with an error status is never followed by another
\* request: the operation throws on it.
C13_NoHttpRetryAlways ==
  \A i \in 1..Len(fetch.log) : ErrorStatusAt(i) => ThrownOnStatus(i)

\* C13 amended: an answer with an error status is never retried; the calling
\* operation throws on it without a further request, except fetchMovies on
\* the answer to its sections request, which it ignores: it goes on to the
\* tasks request without the section names.
C13_NoHttpRetry ==
  \A i \in 1..Len(fetch.log) :
    ErrorStatusAt(i) =>
      /\ \A j \in (i+1)..Len(fetch.log) : fetch.log[j].stage # fetch.log[i].stage
      /\ IF fetch.op = "fetchMovies" /\ fetch.log[i].stage = "sections"
         THEN /\ ~fetch.sections
              /\ fetch.log[i+1].ev = "request" /\ fetch.log[i+1].stage = "tasks"
              /\ fetch.log[i+1].attempt = 0 /\ fetch.log[i+1].at = fetch.log[i].at
         ELSE ThrownOnStatus(i)

C13_Witness ==
  /\ fetch.op = "fetchMovies" /\ fetch.pc = "thrown"
  /\ Len(fetch.log) = 7
  /\ fetch.log[1].ev = "request" /\ fetch.log[2].ev = "reject"
  /\ fetch.log[5].ev = "response" /\ fetch.log[5].n = 500
  /\ fetch.log[6].ev = "request" /\ fetch.log[6].stage = "tasks"
  /\ fetch.log[7].ev = "response" /\ fetch.log[7].n = 401
  /\ fetch.outcome.error = TasksMessage(401)

-----------------------------------------------------------------------------
(* SpecBook: searchBook, alone and twice at once, over every sequence of   *)
(* answers of Open Library and Google Books                                *)

BookWork ==
  [books   |-> {l \in ItemLists({WarAndPeace, DuneBook}, MaxCalls) : l # <<>>},
   batches |-> 1,
   openLib |-> {NetError, Ok(<<>>), Ok(<<DocNoCover>>), Ok(<<DocPages>>),
                Ok(<<DocNoCover, DocCover>>)},
   google  |-> {HttpError, Ok(<<Volume>>), Ok(<<VolumeNoPages>>)}]

InitBook ==
  /\ dom = "book"
  /\ storage = NoBlob
  /\ InitPage

NextBook ==
  \/ Boot
  \/ StartBookBatch(BookWork)
  \/ BookAuthorResponse(BookWork)
  \/ BookTitleResponse(BookWork)
  \/ BookGoogleResponse(BookWork)

SpecBook == InitBook /\ [][NextBook]_vars

\* the step in which Google Books answered the searchBook call of a slot
GoogleStep(sl) ==
  lastOp'.op = "response" /\ lastOp'.slot = sl /\ calls[sl].pc = "gb"

\* r is the Open Library result with the cover of Google Books attached
CoverAttached(r, primary, google) ==
  /\ r # NULL
  /\ \A f \in {"key", "title", "coverId"} : Read(r, f) = Read(primary, f)
  /\ Read(r, "coverUrl") = google.coverUrl
  /\ Read(r, "pages") =
       IF Falsy(Read(primary, "pages")) /\ ~Falsy(google.googlePages)
       THEN google.googlePages ELSE Read(primary, "pages")

\* r is the minimal result made of what Google Books returned
MinimalResult(r, google, searchTitle) ==
  /\ r # NULL
  /\ r.key = JNULL /\ r.coverId = JNULL
  /\ r.coverUrl = google.coverUrl
  /\ r.pages = google.googlePages
  /\ r.title = IF Falsy(google.googleTitle) THEN searchTitle ELSE google.googleTitle

\* C14: when Open Library gave a result without a cover and Google Books
\* returns a cover URL, searchBook returns the Open Library result unchanged
\* except for coverUrl, and for pages when they were missing; when Open
\* Library gave no result, it returns a minimal result made from Google Books.
C14_CoverFallback ==
  [][\A sl \in Slots : GoogleStep(sl) =>
       LET primary == calls[sl].result
           google  == searchGoogleBooks(lastOp'.resp)
           r       == calls'[sl].returned
       IN /\ calls'[sl].pc = "resolved"
          /\ Get(cache', calls[sl].key) = r
          /\ IF google = NULL THEN r = primary
             ELSE IF primary = NULL
             THEN MinimalResult(r, google, calls[sl].searchTitle)
             ELSE CoverAttached(r, primary, google)]_vars

C14_Witness ==
  /\ lastOp.op = "response" /\ lastOp.resp = Ok(<<VolumeNoPages>>)
  /\ LET r == calls[lastOp.slot].returned IN
       /\ r # NULL
       /\ r.key = DocPages.key /\ r.pages = DocPages.number_of_pages_median
       /\ Read(r, "coverUrl") = VolumeNoPages.thumbnail

\* Open Library answered with a candidate that has a cover
HasCoverDoc(resp) ==
  resp.kind = "ok" /\ \E i \in 1..Len(resp.list) : ~Falsy(resp.list[i].cover_i)

\* the step in which Open Library answered the query that slot sl waits for
OpenLibStep(sl, pc) ==
  lastOp'.op = "response" /\ lastOp'.slot = sl /\ calls[sl].pc = pc

\* the Open Library result that the call of a slot goes on with
Primary(call) ==
  IF call.pc = "resolved" THEN call.returned ELSE call.result

\* C15: searchBook issues the title-only query exactly when the title+author
\* query was skipped or gave no result with a cover; the result chosen has a
\* cover whenever one of the two queries gave a candidate with a cover; and a
\* title-only result without a cover never replaces a title+author result.
C15_CoverPreference ==
  [][\A sl \in Slots :
       /\ (lastOp'.op = "start" /\ calls'[sl].pc \in {"ol1", "ol2"}) =>
            (calls'[sl].pc = "ol2" <=>
               Falsy(batch'.items[calls'[sl].item].author))
       /\ OpenLibStep(sl, "ol1") =>
            /\ calls'[sl].pc = "ol2" <=> ~HasCoverDoc(lastOp'.resp)
            /\ HasCoverDoc(lastOp'.resp) =>
                 /\ calls'[sl].pc = "resolved"
                 /\ ~NoCover(calls'[sl].returned)
       /\ OpenLibStep(sl, "ol2") =>
            /\ calls'[sl].pc = IF HasCoverDoc(lastOp'.resp) THEN "resolved" ELSE "gb"
            /\ HasCoverDoc(lastOp'.resp) <=> ~NoCover(Primary(calls'[sl]))
            /\ (calls[sl].result # NULL /\ ~HasCoverDoc(lastOp'.resp)) =>
                 calls'[sl].result = calls[sl].result]_vars

C15_Witness ==
  /\ lastOp.op = "response" /\ lastOp.resp = Ok(<<DocNoCover>>)
  /\ calls[lastOp.slot].pc = "gb"
  /\ calls[lastOp.slot].result # NULL
  /\ calls[lastOp.slot].result.key = DocPages.key

-----------------------------------------------------------------------------
(* SpecParse: parseMovieInfo and parseBookInfo on every short title and on *)
(* every combination of section, section name and subtasks                 *)

MaxTitleLen == 4
MaxSubtasks == 2

TitlePieces == {"Dune", " ", "(1996)", "(2014)", "EMDASH", "7"}
Titles == UNION { [1..n -> TitlePieces] : n \in 0..MaxTitleLen }

SectionIds == {"SERIES", "WATCHING_NOW", "MOVIES", "OTHER"}
ActualNames == {UNDEF, "Filmy", "SERIALY", "Mini-serialy HBO"}

SubtaskContents ==
  { <<"Sezon", " ", "4", ",", " ", "Epizod", " ", "16">>,
    <<"sezon", "2">>,
    <<"Epizod", " ", "7">>,
    <<"Sezon">> }

Task(id, content, section, parent) ==
  [id |-> id, content |-> content, section_id |-> section, parent_id |-> parent]

SubtaskLists ==
  UNION { [1..n -> {Task("s", c, "OTHER", "t1") : c \in SubtaskContents}] :
            n \in 0..MaxSubtasks }

\* the task list of the project: the item, its subtasks, a subtask of another
\* item; or no list at all (the default of the parameter)
TaskList(task, subs, given) ==
  IF given
  THEN <<task>> \o subs \o <<Task("s9", <<"Sezon", " ", "16">>, "OTHER", "t9")>>
  ELSE <<>>

ParseInputs ==
  { [task |-> Task("t1", title, "MOVIES", JNULL), allTasks |-> <<>>,
     actualSections |-> <<>>] : title \in Titles }
  \cup
  { [task |-> Task("t1", <<"Dune">>, sec, JNULL),
     allTasks |-> TaskList(Task("t1", <<"Dune">>, sec, JNULL), subs, TRUE),
     actualSections |-> IF name = UNDEF THEN <<>> ELSE [x \in {sec} |-> name]] :
      sec \in SectionIds, name \in ActualNames, subs \in SubtaskLists }
  \cup
  { [task |-> Task("t1", <<"Dune">>, sec, JNULL),
     allTasks |-> TaskList(Task("t1", <<"Dune">>, sec, JNULL), <<>>, FALSE),
     actualSections |-> IF name = UNDEF THEN <<>> ELSE [x \in {sec} |-> name]] :
      sec \in SectionIds, name \in ActualNames }

OtherThanParsed ==
  <<dom, now, storage, cache, saveCacheTimeout, booted, batch, calls,
    progress, env, match, fetch, app, lastOp, lastSave>>

\* fetchMovies maps parseMovieInfo over the tasks
ParseMovieInfoCall ==
  /\ dom = "movie" /\ parsed = NoParse
  /\ \E in \in ParseInputs :
       parsed' = [op |-> "parseMovieInfo", task |-> in.task,
                  allTasks |-> in.allTasks,
                  info |-> parseMovieInfo(in.task, in.allTasks, in.actualSections)]
  /\ UNCHANGED OtherThanParsed

\* fetchBooks maps parseBookInfo over the tasks
ParseBookInfoCall ==
  /\ dom = "book" /\ parsed = NoParse
  /\ \E title \in Titles \cup {<<"Dune", " ", "HYPHEN", " ", "1996">>} :
       parsed' = [op |-> "parseBookInfo", task |-> Task("t1", title, "OTHER", JNULL),
                  allTasks |-> <<>>,
                  info |-> parseBookInfo(Task("t1", title, "OTHER", JNULL))]
  /\ UNCHANGED OtherThanParsed

InitParse ==
  /\ dom \in {"book", "movie"}
  /\ storage = NoBlob
  /\ InitPage

NextParse ==
  \/ ParseMovieInfoCall
  \/ ParseBookInfoCall

SpecParse == InitParse /\ [][NextParse]_vars

ParsedMovie == parsed.op = "parseMovieInfo"

\* the subtasks of the parsed item, as positions of the task list
SubtaskPositions ==
  {i \in 1..Len(parsed.allTasks) : parsed.allTasks[i].parent_id = parsed.task.id}

\* C16: isSeries is true for an item of the Series section, whatever its
\* subtasks; else true for an item with subtasks; else false for an item of
\* the Watching Now section; else true exactly when the section name contains
\* the series substring.
C16_SeriesInference ==
  ParsedMovie =>
    parsed.info.isSeries =
      IF parsed.task.section_id = "SERIES" THEN TRUE
      ELSE IF SubtaskPositions # {} THEN TRUE
      ELSE IF parsed.task.section_id = "WATCHING_NOW" THEN FALSE
      ELSE IncludesSerial(parsed.info.sectionName)

C16_Witness ==
  /\ ParsedMovie /\ parsed.task.section_id = "WATCHING_NOW"
  /\ parsed.info.sectionName = "Mini-serialy HBO"
  /\ parsed.allTasks # <<>> /\ SubtaskPositions = {}
  /\ ~parsed.info.isSeries

\* the season numbers that the subtasks of the parsed item name
SubtaskSeasons ==
  {SeasonOf(parsed.allTasks[i].content) : i \in SubtaskPositions} \ {NoCount}

\* C17: an item with N > 0 subtasks has episodes = N and seasons = the largest
\* season number named by a subtask, or null when no subtask names one; an
\* item without subtasks has episodes = null and seasons = null.
C17_EpisodesSeasons ==
  ParsedMovie =>
    IF SubtaskPositions # {}
    THEN /\ parsed.info.episodes = Cardinality(SubtaskPositions)
         /\ IF SubtaskSeasons = {} THEN parsed.info.seasons = NoCount
            ELSE /\ parsed.info.seasons \in SubtaskSeasons
                 /\ \A k \in SubtaskSeasons : k <= parsed.info.seasons
    ELSE parsed.info.episodes = NoCount /\ parsed.info.seasons = NoCount

C17_Witness ==
  /\ ParsedMovie /\ parsed.info.episodes = 2 /\ parsed.info.seasons = 4
  /\ SeasonOf(parsed.allTasks[2].content) = 2
  /\ SeasonOf(parsed.allTasks[4].content) = 16

Parsed == parsed.op \in {"parseMovieInfo", "parseBookInfo"}

\* the years that the raw title holds in parentheses
RawYears ==
  {YearValue(parsed.task.content[i]) :
     i \in {j \in 1..Len(parsed.task.content) : IsYearParen(parsed.task.content[j])}}

\* C18: for a raw title that holds a 4-digit year in parentheses, the parser
\* sets year to that number and the title it returns holds no 4-digit year in
\* parentheses.
C18_YearExtraction ==
  (Parsed /\ RawYears # {}) =>
    /\ parsed.info.year \in RawYears
    /\ ~HasYear(parsed.info.title)

-----------------------------------------------------------------------------
(* Failures of the providers *)

\* the item that the call of a slot looks up has a title that is a string
StringTitle(sl) ==
  calls[sl].item # 0 /\ batch.items[calls[sl].item].title # NotAString

\* C19: whatever the providers answer at each query (network error, error
\* status, empty list, candidates), a searchBook or searchMovie call on a
\* title resolves to a match or to null and never rejects.
C19_NeverRejects ==
  \A sl \in Slots :
    StringTitle(sl) =>
      /\ calls[sl].pc # "rejected"
      /\ Settled(calls[sl]) =>
           /\ calls[sl].pc = "resolved"
           /\ calls[sl].returned # NULL => "title" \in DOMAIN calls[sl].returned

C19_Witness ==
  /\ dom = "movie" /\ batch.apiKey = "tmdb-key" /\ StringTitle(1)
  /\ lastOp.op = "response"
  /\ calls[1].pc = "resolved" /\ calls[1].returned = NULL /\ ~calls[1].hit
  /\ ~Has(cache, calls[1].key)


-----------------------------------------------------------------------------
(* Lookups of one key that run at once (batchSearchBooks starts the        *)
(* searchBook calls of a group together; batchSearchMovies runs one        *)
(* searchMovie at a time, so only books have two lookups in flight).       *)

\* the slots of the running group whose lookups were started for key k
CallsFor(k) == {sl \in Slots : calls[sl].pc # "idle" /\ calls[sl].key = k}

\* cacheKey of searchBook for an item of the batch
ItemKey(item) ==
  BookCacheKey(SearchTitle("book", CleanBookTitle(item.title)), item.author)

\* a group has just been started and no lookup of it has been answered yet
GroupStarted == dom = "book" /\ lastOp.op \in {"start", "nextGroup"}

\* the items of earlier groups of the batch that were looked up under key k
EarlierItems(k) ==
  {i \in 1..(batch.first - 1) :
     batch.items[i].title # NotAString /\ ItemKey(batch.items[i]) = k}

\* C20: two searchBook calls for the same uncached key that are started
\* together both miss the cache and both query the provider; when a lookup
\* that queried the provider returns, the cache holds the value it returned,
\* so after both have returned the cache holds the value of the one that
\* returned last; and a lookup of a later group whose key an earlier group of
\* the same batch looked up is a cache hit, so the lookups that query the
\* provider for one key all belong to one group of at most BATCH_SIZE calls
C20_DuplicateLookups ==
  dom = "book" =>
    /\ GroupStarted =>
         \A s1, s2 \in Slots :
           /\ s1 # s2 /\ s2 \in CallsFor(calls[s1].key)
           /\ calls[s1].pc # "idle" /\ calls[s1].pc # "rejected"
           /\ ~Has(cache, calls[s1].key)
           => /\ calls[s1].pc \in {"ol1", "ol2"} /\ ~calls[s1].hit
              /\ calls[s2].pc \in {"ol1", "ol2"} /\ ~calls[s2].hit
    /\ lastOp.op = "response" =>
         /\ calls[lastOp.slot].pc = "resolved" =>
              /\ Has(cache, calls[lastOp.slot].key)
              /\ Get(cache, calls[lastOp.slot].key) = calls[lastOp.slot].returned
    /\ \A sl \in Slots :
         /\ calls[sl].pc \notin {"idle", "rejected"}
         /\ EarlierItems(calls[sl].key) # {}
         => calls[sl].hit /\ calls[sl].pc = "resolved"
    /\ \A sl \in Slots : Cardinality(CallsFor(calls[sl].key)) <= BATCH_SIZE

\* two lookups of one key have both queried the provider and returned
\* different values; the cache holds that of the one that returned last
C20_Witness ==
  /\ dom = "book" /\ lastOp.op = "response"
  /\ \E other \in Slots \ {lastOp.slot} :
       /\ calls[other].key = calls[lastOp.slot].key
       /\ calls[other].pc = "resolved" /\ ~calls[other].hit
       /\ calls[lastOp.slot].pc = "resolved" /\ ~calls[lastOp.slot].hit
       /\ calls[other].returned # calls[lastOp.slot].returned
       /\ Get(cache, calls[other].key) = calls[lastOp.slot].returned

-----------------------------------------------------------------------------
(* The queries of searchMovie (SpecBatch) *)

\* the step in which TMDB answered the request that searchMovie waits for at pc
MovieStep(pc) ==
  dom = "movie" /\ lastOp'.op = "response" /\ calls[1].pc = pc

ZeroResults(resp) == resp.kind = "ok" /\ Len(resp.list) = 0
SomeResults(resp) == resp.kind = "ok" /\ Len(resp.list) > 0

\* the request the running searchMovie call waits for
Pending(call, items) ==
  RequestUrl(call.searchTitle, items[call.item].year, call.pc)

Scored(resp) == IF resp.kind = "ok" THEN resp.list ELSE <<>>

\* findBestMatch, with the year of the item, rejects every candidate
Rejected(call, items, results) ==
  /\ Len(results) > 0
  /\ Truthy(items[call.item].year)
  /\ findBestMatch(results, SearchTitle("movie", call.searchTitle),
                   items[call.item].year, items[call.item].isSeries) = 0

\* the candidate that findBestMatch accepts without a year, 0 if none
YearlessIndex(call, items, results) ==
  IF Len(results) = 0 THEN 0
  ELSE findBestMatch(results, SearchTitle("movie", call.searchTitle), NoYear,
                     items[call.item].isSeries)

\* C22: when a year was supplied and findBestMatch rejects every candidate,
\* searchMovie neither returns nor writes the cache but asks again without
\* the year parameter; the answer to that request is scored with no year, a
\* candidate accepted then is returned and cached, and null is cached for the
\* key exactly when that attempt gave no accepted candidate.
C22_YearlessRetry ==
  [][/\ \A pc \in {"q1", "q2", "q3"} :
          (MovieStep(pc) /\ Rejected(calls[1], batch.items, Scored(lastOp'.resp))) =>
            /\ calls'[1].pc = "q4"
            /\ cache' = cache
            /\ Pending(calls'[1], batch'.items).year = NoYear
            /\ Pending(calls'[1], batch'.items).query =
                 SearchTitle("movie", calls[1].searchTitle)
     /\ (MovieStep("q4") /\ ~Has(cache, calls[1].key)) =>
          LET results == Scored(lastOp'.resp)
              index == YearlessIndex(calls[1], batch.items, results) IN
          /\ calls'[1].returned =
               IF index = 0 THEN NULL
               ELSE MovieData(results[index], batch.items[calls[1].item].isSeries)
          /\ Has(cache', calls[1].key)
          /\ Get(cache', calls[1].key) = NULL <=> index = 0]_vars

\* every candidate was rejected with the year 1996; the request without the
\* year is pending and nothing is cached for the key
C22_Witness ==
  /\ dom = "movie" /\ lastOp.op = "response"
  /\ lastOp.resp = Ok(<<Fargo2014, DunePart2>>)
  /\ calls[1].pc = "q4"
  /\ batch.items[calls[1].item].year = 1996
  /\ ~Has(cache, calls[1].key)

-----------------------------------------------------------------------------
(* Google Books as the fallback of searchBook (SpecBook) *)

\* C23: searchBook sends its request to Google Books exactly when the Open
\* Library search (the title+author query, then the title-only query) ended
\* without a candidate that has a cover; when an Open Library query finds a
\* candidate with a cover, the call resolves in that step without a request
\* to Google Books, and what it returns and caches is that candidate as
\* processSearchResult made it.
C23_SecondaryIsFallback ==
  [][\A sl \in Slots :
       /\ (calls'[sl].pc = "gb" /\ calls[sl].pc # "gb") =>
            /\ OpenLibStep(sl, "ol2")
            /\ ~HasCoverDoc(lastOp'.resp)
            /\ NoCover(calls'[sl].result)
       /\ (OpenLibStep(sl, "ol2") /\ ~HasCoverDoc(lastOp'.resp)) =>
            /\ calls'[sl].pc = "gb"
            /\ cache' = cache
       /\ ((OpenLibStep(sl, "ol1") \/ OpenLibStep(sl, "ol2"))
             /\ HasCoverDoc(lastOp'.resp)) =>
            /\ calls'[sl].pc = "resolved"
            /\ calls'[sl].returned = performOpenLibSearch(lastOp'.resp)
            /\ ~NoCover(calls'[sl].returned)
            /\ "coverUrl" \notin DOMAIN calls'[sl].returned
            /\ Get(cache', calls[sl].key) = calls'[sl].returned]_vars

\* the title-only query found a candidate with a cover: the call has
\* returned it, it is in the cache, and Google Books was not asked
C23_Witness ==
  /\ dom = "book" /\ lastOp.op = "response"
  /\ lastOp.resp = Ok(<<DocNoCover, DocCover>>)
  /\ calls[lastOp.slot].pc = "resolved"
  /\ calls[lastOp.slot].returned = processSearchResult(DocCover)
  /\ Get(cache, calls[lastOp.slot].key) = processSearchResult(DocCover)

-----------------------------------------------------------------------------
(* The size limit of saveCacheToStorage (Spec) *)

\* storage holds the blob that the last run of saveCacheToStorage wrote
HoldsLastSave ==
  /\ lastSave.kind = "save" /\ ~lastSave.quota
  /\ storage # NoBlob
  /\ storage.expiry = lastSave.at + TTL

\* the number of entries that Math.floor(entries.length * 0.8) keeps
KeptCount(n) == (n * KEEP_PERCENT) \div 100

\* the entries inserted last, as many as are kept
NewestKept(entries) ==
  SubSeq(entries, Len(entries) - KeptCount(Len(entries)) + 1, Len(entries))

\* C24: when the serialized cache is longer than the threshold, the blob that
\* saveCacheToStorage writes holds the 80% of the entries that were inserted
\* last (the oldest 20% are left out).
C24_EvictsOldest ==
  (HoldsLastSave /\ ~SaveFitted) =>
    storage.data = NewestKept(JsonData(lastSave.mem))

-----------------------------------------------------------------------------
(* A full localStorage (Spec) *)

\* a step in which saveCacheToStorage ran and setItem threw QuotaExceededError
QuotaSaveStep ==
  lastSave' # lastSave /\ lastSave'.kind = "save" /\ lastSave'.quota

-----------------------------------------------------------------------------
(* clearOpenLibCache / clearTmdbCache (Spec) *)

\* the state that clear leaves, for as long as nothing is written to the map
\* (a timer can be pending over an empty map only after a clear: it is armed
\* after a cache.set, and a reload drops it together with the map)
ClearedAndUnwritten ==
  booted /\ cache = <<>> /\ storage = NoBlob

\* C26: clear leaves an empty map and no blob in storage, and the save of a
\* debounce timer that was pending when clear was called does not bring a
\* blob back as long as nothing has been written to the map.
C26_ClearIsComplete ==
  [][/\ lastOp'.op = "clear" => cache' = <<>> /\ storage' = NoBlob
     /\ (ClearedAndUnwritten /\ lastOp'.op = "debouncedSave") =>
          storage' = NoBlob]_vars

-----------------------------------------------------------------------------
(* Cached nulls (SpecBatch) *)

\* the step in which the call of slot sl got the answer to its last provider
\* query and returned
LastQueryStep(sl) ==
  /\ lastOp'.op = "response"
  /\ calls[sl].pc \in SearchPcs
  /\ lastOp'.slot = sl
  /\ calls'[sl].pc \notin SearchPcs

\* the request failed: fetch threw, or the status was not OK
Failed(resp) == resp.kind # "ok"

\* C27: searchMovie and searchBook cache null for a key only after provider
\* queries that completed and found nothing acceptable; in particular a
\* search whose last provider query ended in a network error or a non-OK
\* status returns without leaving a null in the cache for its key.
C27_ConfirmedNullOnly ==
  [][\A sl \in Slots :
       (LastQueryStep(sl) /\ Failed(lastOp'.resp) /\ ~Has(cache, calls[sl].key)) =>
         ~(Has(cache', calls[sl].key) /\ Get(cache', calls[sl].key) = NULL)]_vars

-----------------------------------------------------------------------------
(* The lifetime of a cache entry (Spec) *)

\* the key of the null entry that an earlier session left in storage; no
\* lookup of this session writes it, so it was written before StartTime
OldKey(d) ==
  IF d = "book" THEN BookCacheKey("Solaris", JNULL)
  ELSE MovieCacheKey("Solaris", 1972, FALSE)

\* the latest time at which an earlier session can have written its blob
OldestWrite == StartTime - 1

\* C28 as stated: an entry written at time t is served by no load later than
\* t + 30 days, whatever writes and saves happened in between; here for the
\* entry of the earlier session, written no later than OldestWrite.
C28_BoundedLifetime ==
  (JustLoaded /\ lastOp.at > OldestWrite + TTL) => ~Has(cache, OldKey(dom))

\* C28 amended: the 30 days count from the last save of the whole blob, not
\* from the write of an entry: a load later than 30 days after the last
\* save serves nothing, and a load up to 30 days after it serves every
\* entry the map held at that save, however long ago the entry was written.
C28_LifetimeFromLastSave ==
  (JustLoaded /\ lastSave.kind = "save" /\ ~lastSave.quota) =>
    /\ lastOp.at > lastSave.at + TTL => cache = <<>> /\ storage = NoBlob
    /\ (lastOp.at <= lastSave.at + TTL /\ SaveFitted) => SavedEntriesRestored

\* the entry of the earlier session is served by a load more than 30 days
\* after it was written, 30 days after a save that renewed the blob
C28_Witness ==
  /\ JustLoaded /\ lastSave.kind = "save" /\ ~lastSave.quota
  /\ lastOp.at = lastSave.at + TTL
  /\ lastOp.at > OldestWrite + TTL
  /\ Has(cache, OldKey(dom)) /\ Get(cache, OldKey(dom)) = NULL

-----------------------------------------------------------------------------
(* Marking an item watched / read with undo: handleWatched, handleBookRead  *)
(* and the toast of App.vue (SpecUndo, SpecUndoFair).                       *)
(* The two handlers share one pendingWatched ref, one watchedTimeout        *)
(* handle and one toast.  marks is history: one entry for every confirmed   *)
(* mark, with the position of its timer callback.                           *)

MaxMarks   == 2      \* confirmed marks of one behaviour
MaxSeconds == 2      \* seconds after which time passes only for armed timers

UNDO_MS  == 5000     \* the delay of watchedTimeout
TOAST_MS == 4000     \* the default duration of ToastNotification

MovieIds == {"m1"}
BookIds  == {"b1"}
TaskIds  == MovieIds \cup BookIds

NoMark == [item |-> JNULL, at |-> 0, pc |-> "none", closes |-> 0,
           creates |-> 0, undone |-> "no"]

\* the page after loadContent has filled both lists
MountedApp(token) ==
  [mounted |-> TRUE, todoistToken |-> token,
   movies |-> <<"m1">>, books |-> <<"b1">>,
   pendingWatched |-> JNULL, watchedTimeout |-> 0,
   toast |-> [show |-> FALSE, action |-> "none", mark |-> 0],
   timeoutId |-> NoTimer, showSettings |-> FALSE,
   marks |-> [n \in 1..MaxMarks |-> NoMark], nmarks |-> 0,
   closed |-> {}]

Members(list) == {list[i] : i \in 1..Len(list)}
Copies(list, id) == Cardinality({i \in 1..Len(list) : list[i] = id})

\* list.filter(x => x.id !== id)
Without(list, id) == SelectSeq(list, LAMBDA x : x # id)

showToast(S, action, n) ==
  [S EXCEPT !.toast = [show |-> TRUE, action |-> action, mark |-> n]]

hideToast(S) == [S EXCEPT !.toast.show = FALSE]

\* clearTimeout(watchedTimeout): a timer that has fired is not affected
clearWatchedTimeout(S) ==
  IF S.watchedTimeout # 0 /\ S.marks[S.watchedTimeout].pc = "timer"
  THEN [S EXCEPT !.marks[S.watchedTimeout].pc = "cleared"]
  ELSE S

\* the watcher of props.show in ToastNotification, run once after a handler:
\* B is the page before the handler, S the page after it
watchShow(B, S, t) ==
  IF ~B.toast.show /\ S.toast.show
  THEN [S EXCEPT !.timeoutId = t + Units(TOAST_MS)]
  ELSE S

\* movies.value = [movieToRemove, ...movies.value] / the same for books
Restore(S, id) ==
  IF id \in MovieIds THEN [S EXCEPT !.movies = <<id>> \o S.movies]
  ELSE [S EXCEPT !.books = <<id>> \o S.books]

\* the part of both handlers after the list was filtered
ArmUndo(S, id, t) ==
  LET n  == S.nmarks + 1
      S1 == clearWatchedTimeout([S EXCEPT !.pendingWatched = id])
      S2 == showToast(S1, "undo", n)
  IN [S2 EXCEPT !.watchedTimeout = n, !.nmarks = n,
                !.marks[n] = [NoMark EXCEPT !.item = id, !.at = t,
                                            !.pc = "timer"]]

handleWatched(S, movie, confirmed, t) ==
  IF S.todoistToken = "" THEN showToast(S, "settings", 0)
  ELSE IF ~confirmed THEN S
  ELSE ArmUndo([S EXCEPT !.movies = Without(S.movies, movie)], movie, t)

handleBookRead(S, book, confirmed, t) ==
  IF S.todoistToken = "" THEN showToast(S, "settings", 0)
  ELSE IF ~confirmed THEN S
  ELSE ArmUndo([S EXCEPT !.books = Without(S.books, book)], book, t)

\* the undo callback without pendingWatched.value = null
undoCallbackKeepPending(S, n) ==
  LET S1 == clearWatchedTimeout(S)
      S2 == Restore(S1, S.marks[n].item)
  IN showToast(hideToast(S2), "none", 0)

\* the undo callback that the toast of mark n carries
undoCallback(S, n) ==
  LET S1 == clearWatchedTimeout(S)
      S2 == Restore(S1, S.marks[n].item)
      S3 == [S2 EXCEPT !.pendingWatched = JNULL]
  IN showToast(hideToast(S3), "none", 0)

\* the callback of the toast shown when there is no token
settingsCallback(S) == [hideToast(S) EXCEPT !.showSettings = TRUE]

\* handleAction of ToastNotification, then @action of the page
handleAction(S) ==
  LET S1 == [S EXCEPT !.timeoutId = NoTimer]
  IN IF S.toast.action = "undo" THEN undoCallback(S1, S.toast.mark)
     ELSE settingsCallback(S1)

\* handleClose of ToastNotification, then @close of the page
handleClose(S) == hideToast([S EXCEPT !.timeoutId = NoTimer])

\* the callback of watchedTimeout for mark n: up to the call of completeTask
watchedCallback(S, n) ==
  IF S.pendingWatched # JNULL /\ S.pendingWatched = S.marks[n].item
  THEN [S EXCEPT !.marks[n].pc = "closeTask",
                 !.marks[n].closes = S.marks[n].closes + 1]
  ELSE [S EXCEPT !.marks[n].pc = "skipped"]

\* the catch block of the callback
watchedCatch(S, n) ==
  showToast([Restore(S, S.marks[n].item) EXCEPT !.marks[n].pc = "failed"],
            "none", 0)

\* completeTask / completeBookTask settles: on success the task is closed
\* and createTask / createBookReviewTask is called
watchedOnClosed(S, n, ok) ==
  IF ok THEN [S EXCEPT !.closed = S.closed \cup {S.marks[n].item},
                       !.marks[n].pc = "createTask",
                       !.marks[n].creates = S.marks[n].creates + 1]
  ELSE watchedCatch(S, n)

\* createTask / createBookReviewTask settles
watchedOnCreated(S, n, ok) ==
  IF ok THEN [S EXCEPT !.pendingWatched = JNULL, !.marks[n].pc = "done"]
  ELSE watchedCatch(S, n)

OtherThanApp ==
  <<dom, storage, cache, saveCacheTimeout, booted, batch, calls,
    progress, env, match, fetch, parsed, lastSave>>

\* a handler of the page runs at the current time, then the watcher
AppStep(S, op) ==
  /\ app' = watchShow(app, S, now)
  /\ lastOp' = op
  /\ UNCHANGED now
  /\ UNCHANGED OtherThanApp

MarkWatched ==
  /\ app.todoistToken = "" \/ app.nmarks < MaxMarks
  /\ \E movie \in Members(app.movies), confirmed \in BOOLEAN :
       AppStep(handleWatched(app, movie, confirmed, now),
               [op |-> "handleWatched", item |-> movie,
                confirmed |-> confirmed])

MarkRead ==
  /\ app.todoistToken = "" \/ app.nmarks < MaxMarks
  /\ \E book \in Members(app.books), confirmed \in BOOLEAN :
       AppStep(handleBookRead(app, book, confirmed, now),
               [op |-> "handleBookRead", item |-> book,
                confirmed |-> confirmed])

\* the user presses the button of the toast
ToastAction ==
  /\ app.toast.show /\ app.toast.action # "none"
  /\ LET n     == app.toast.mark
         early == app.marks[n].pc = "timer"
         S     == handleAction(app)
     IN IF app.toast.action = "undo"
        THEN AppStep([S EXCEPT !.marks[n].undone =
                                 IF early THEN "early" ELSE "late"],
                     [op |-> "undo", mark |-> n, early |-> early])
        ELSE AppStep(S, [op |-> "settings"])

\* the user closes the toast
ToastClose ==
  /\ app.toast.show
  /\ AppStep(handleClose(app), [op |-> "closeToast"])

\* the timer of ToastNotification expires
ToastTimeoutFire ==
  /\ app.timeoutId # NoTimer /\ now >= app.timeoutId
  /\ AppStep(handleClose(app), [op |-> "toastTimeout"])

\* the timer of a mark expires
WatchedTimeoutFire ==
  \E n \in 1..MaxMarks :
    /\ app.marks[n].pc = "timer"
    /\ now >= app.marks[n].at + Units(UNDO_MS)
    /\ AppStep(watchedCallback(app, n),
               [op |-> "watchedTimeout", mark |-> n])

CompleteTaskResponse ==
  \E n \in 1..MaxMarks, ok \in BOOLEAN :
    /\ app.marks[n].pc = "closeTask"
    /\ AppStep(watchedOnClosed(app, n, ok),
               [op |-> "completeTask", mark |-> n, ok |-> ok])

CreateTaskResponse ==
  \E n \in 1..MaxMarks, ok \in BOOLEAN :
    /\ app.marks[n].pc = "createTask"
    /\ AppStep(watchedOnCreated(app, n, ok),
               [op |-> "createTask", mark |-> n, ok |-> ok])

\* the deadlines of the page's timers
AppDeadlines ==
  {app.marks[n].at + Units(UNDO_MS) : n \in {k \in 1..MaxMarks : app.marks[k].pc = "timer"}}
    \cup (IF app.timeoutId # NoTimer THEN {app.timeoutId} ELSE {})

\* a second passes; a timer that is due runs first.  After MaxSeconds time
\* passes only while a mark waits for its timer.
Second ==
  /\ \A d \in AppDeadlines : now < d
  /\ \/ now < StartTime + MaxSeconds * Units(1000)
     \/ \E n \in 1..MaxMarks : app.marks[n].pc = "timer"
  /\ now' = now + Units(1000)
  /\ lastOp' = [op |-> "second"]
  /\ UNCHANGED app
  /\ UNCHANGED OtherThanApp

InitUndo ==
  /\ dom = "movie"
  /\ now = StartTime
  /\ storage = NoBlob
  /\ cache = <<>>
  /\ saveCacheTimeout = NoTimer
  /\ booted = TRUE
  /\ batch = NoBatch
  /\ calls = [sl \in Slots |-> IdleCall]
  /\ progress = <<>>
  /\ env = [events |-> 0, saves |-> 0, full |-> FALSE]
  /\ match = NoMatch
  /\ fetch = NoFetch
  /\ parsed = NoParse
  /\ app \in {MountedApp(token) : token \in {"", "tok"}}
  /\ lastOp = [op |-> "init"]
  /\ lastSave = NoSave

NextUndo ==
  \/ MarkWatched
  \/ MarkRead
  \/ ToastAction
  \/ ToastClose
  \/ ToastTimeoutFire
  \/ WatchedTimeoutFire
  \/ CompleteTaskResponse
  \/ CreateTaskResponse
  \/ Second

SpecUndo == InitUndo /\ [][NextUndo]_vars

\* timers that are due run, pending requests settle, time passes
SpecUndoFair ==
  /\ SpecUndo
  /\ WF_vars(ToastTimeoutFire)
  /\ WF_vars(WatchedTimeoutFire)
  /\ WF_vars(CompleteTaskResponse)
  /\ WF_vars(CreateTaskResponse)
  /\ WF_vars(Second)


\* the list that shows the item
ListWith(S, id) == IF id \in MovieIds THEN S.movies ELSE S.books

Listed(id) == id \in Members(ListWith(app, id))

\* C29: no lost completion.  An item that was marked and is not in its
\* list is eventually closed in the task source or back in its list (by an
\* undo or by the error handler), whatever else is marked in the meantime
\* and whenever it is marked.
C29_NoLostCompletion ==
  \A id \in TaskIds : (~Listed(id)) ~> (Listed(id) \/ id \in app.closed)

\* the undo of mark n was pressed while the timer of mark n was armed
UndoBeforeTimer(n) == lastOp'.op = "undo" /\ lastOp'.mark = n /\ lastOp'.early

\* the timer callback of mark n calls completeTask / completeBookTask
CallsCloseTask(n) ==
  /\ lastOp'.op = "watchedTimeout" /\ lastOp'.mark = n
  /\ app'.marks[n].pc = "closeTask"

====
